---- MODULE Spec2Model ----
(***************************************************************************)
(* A model of mattcl/aoc2023: the Problem trait's solve pipeline and the   *)
(* CLI dispatcher (specification Spec), and the algorithms of single days  *)
(* that the specification makes promises about, each under a specification *)
(* of its own.                                                             *)
(***************************************************************************)
EXTENDS Integers, Sequences, FiniteSets, TLC

VARIABLES
    \* ---- aoc-cli / aoc-plumbing: one invocation of the `aoc` binary ----
    cmd,        \* the parsed Commands value: [kind, name, day, json]
    fileOk,     \* whether std::fs::read_to_string succeeds on the input path
    behav,      \* what the routed solver does on this input: [parse, p1, p2]
    pc,         \* position of the invocation
    target,     \* the solver type T that _run::<T> was instantiated with
    fileRead,   \* whether read_to_string has been called
    inst,       \* how many instances Problem::instance has built
    calls,      \* the Problem methods called so far: <<method, solver, instance>>
    partial,    \* the results solve holds so far: a sequence of part values
    stdout,     \* the lines printed so far
    result      \* what Cli::run returned: "none" until it returns

VARIABLES
    \* ---- day 20, pulse propagation: one call of part_one or part_two ----
    mods,           \* the local `mods`: module name -> CommMod
    cck,            \* self.cycle_conjunction_key
    d20pc,          \* position: "idle", "p1", "p1done", "p2start", "p2", "p2done", "p2panic"
    pulses,         \* the VecDeque `pulses` of (origin, dest, pulse)
    presses,        \* iterations of `for _ in 0..1000` / of `loop` begun so far
    low_pulses,     \* push_button's low_pulses
    high_pulses,    \* push_button's high_pulses
    count,          \* push_button_until's count
    cycle_markers,  \* push_button_until's cycle_markers
    d20result,      \* what the call returned (0 until it returns)
    sent,           \* history: the pulses pushed during the current press, in order
    delivered,      \* history: the pulses popped during the current press, in order
    poppedLow,      \* history: low pulses popped since the call began
    poppedHigh,     \* history: high pulses popped since the call began
    firstHigh       \* history: input of the cycle conjunction -> the press (from 1)
                    \* during which it first delivered High to it

VARIABLES
    \* ---- days 17 and 23: one call of from_str ----
    thrInput,   \* the parsed input: [grid, panics]
    ppc,        \* position of the thread that called from_str
    threads,    \* the two spawned threads: [st, idx, acc]
    joined,     \* the handles join() has returned for
    got,        \* the values the joins returned so far (p1, then p2)
    fsResult    \* what from_str returned: "none", "Ok" or "Err"

VARIABLES
    \* ---- day 19: one call of combo_accepted ----
    workflows,  \* workflow name -> its rules
    d19pc,      \* "idle", "combo" (in the loop) or "done"
    intervals,  \* the stack of (IntervalSet, Decision, rule index)
    accepted,   \* the accepted interval sets
    d19result   \* what combo_accepted returned

VARIABLES
    \* ---- day 14: one call of Dish2::cycle ----
    dish,       \* the parsed platform: [height, width, cubes]
    rounds,     \* the positions <<row, column>> of the round rocks
    startRounds, \* the rounds the call started with
    cycleCount, \* the argument `count`
    cycle_idx,  \* the loop variable
    loads,      \* the loads pushed so far
    cache,      \* key -> the cycle_idx that first had the key
    d14pc,      \* "idle", "cycle" or "done"
    d14result   \* what cycle returned

VARIABLES
    \* ---- day 23: one call of longest_distance ----
    graph,      \* the contracted junction graph: idx -> [neighbors, layer, best]
    N,          \* the const generic N of ALongWalkGen
    sloped,     \* the argument `sloped`
    goal,       \* the local `end`: the node the searches stop at
    starting_points, \* the starting points of the searches
    depth,      \* the loop variable _depth
    d23pc,      \* "idle", "expand" or "done"
    d23result   \* what longest_distance returned

VARIABLES
    \* ---- day 8: one call of ghost_steps_from ----
    instructions, \* the parsed instructions, "L" or "R"
    mapping,    \* node name -> [left, right, ends_with_a, ends_with_z]
    ghosts,     \* start node -> [cur, count, found]: its get_first_instance call
    d8pc,       \* "idle", "walk" or "done"
    d8result    \* what ghost_steps_from returned

VARIABLES
    \* ---- day 15: one call of LensLibrary::from_str ----
    processed,  \* the steps of the input handled so far
    buckets,    \* hm.buckets: box index -> the lenses of the box, front first
    lens_p1,         \* the running sum of the steps' hashes
    d15pc,      \* "idle", "steps" or "done"
    lens_p2          \* hm.focusing_power() at the end

VARIABLES
    \* ---- day 16: one call of propagate_all ----
    lava_grid,  \* [height, width, tiles]: the Grid<Tile>, tiles[row][col]
    overflow_checks, \* whether the build checks arithmetic overflow
    starting_particles, \* the particles propagate_all has still to propagate
    beams,      \* propagate's stack of beams, the top last
    visited,    \* propagate's `seen`: facing -> EnergizedSet
    energized,  \* propagate's `energized`: the set bits as <<row, bit>>
    propagated, \* the finished propagate calls: [start, energized]
    d16pc,      \* "idle", "run", "max", "done" or "panicked"
    d16result   \* what propagate_all returned

VARIABLES
    \* ---- day 5: one call of lowest_location_number_range ----
    seeds,      \* the parsed seed numbers, read in (start, length) pairs
    range_maps, \* the seven RangeMaps: sequences of [destination, source]
    map_idx,    \* how many maps the outer loop has finished
    ranges,     \* the ranges still to split for the current map, the top last
    next_ranges, \* the ranges handed to the next map
    d5pc,       \* "idle", "split" or "done"
    d5result    \* what lowest_location_number_range returned

VARIABLES
    \* ---- day 10: PipeMaze::from_str with its call of process_loop ----
    sketch,     \* the pipes the input was drawn from: the maze with the pipe under S
    pipe_maze,  \* self.maze: [height, width, tiles], tiles[row][col]
    maze_start, \* self.start
    actor_one,  \* the actor that walks the loop
    actor_snapshots, \* the actor after each of its steps
    snapshot_idx, \* the snapshot the loop over actor_snapshots comes to next
    loop_steps, \* self.steps
    num_inside, \* self.num_inside
    cur_locations, \* the locations flood has to look at
    d10pc       \* "idle", "find", "walk", "sides", "flood" or "done"

VARIABLES
    \* ---- day 22: SandSlabs::from_str with its call of settle ----
    snapshot,   \* the bricks as parsed and sorted, before any has moved
    bricks,     \* settle's bricks: [start, end] of [x, y, z], counted from 1
    topology,   \* topology[y][x]: the last brick placed over (x, y), 0 for none
    above,      \* above[i]: the bricks resting on brick i
    below,      \* below[i]: the bricks brick i rests on
    required,   \* required[i]: brick i is the only support of some brick
    settle_idx, \* the brick the loop of settle comes to next
    required_idxs, \* the required bricks still to search from
    d22pc,      \* "idle", "settle", "search" or "done"
    slab_p1,    \* p1 of settle
    slab_p2     \* p2 of settle

VARIABLES
    \* ---- day 12: one call of fast_arrangements ----
    spring,     \* the Spring of the record: [key, groups]
    unfolded,   \* whether count_long_arrangements makes the call
    springs_input, \* the `input` of fast_arrangements, a sequence of ".", "#", "?"
    springs_groups, \* the `groups` of fast_arrangements
    dp_prev,    \* prev[0..input.len()]
    dp_cur,     \* cur[0..input.len()]
    group_idx,  \* how many groups the loop has handled
    d12pc,      \* "idle", "groups" or "done"
    d12result   \* what fast_arrangements returned

VARIABLES
    \* ---- day 7: CamelCards from_str, part_one, part_two ----
    camel_input, \* the lines of the input: a sequence of [text, bid]
    hands,      \* CamelCards.hands, a sequence of Hand
    d7pc,       \* "idle", "parse" or "ready"
    camel_p1,   \* what part_one returned, -1 before the call
    camel_p2    \* what part_two returned, -1 before the call

VARIABLES
    \* ---- day 17: one call of Blocks::minimize ----
    blocks,     \* Blocks.grid: the rows of the grid, a sequence of sequences
    run_min,    \* the `min` of minimize
    run_max,    \* the `max` of minimize
    first_call, \* the `first` flag of the closure
    best_cost,  \* bucket_dijkstra: the lowest cost found so far of every node found
    settled_nodes, \* bucket_dijkstra: the nodes whose edges have been asked for
    d17pc,      \* "idle", "search" or "done"
    heat_loss   \* what minimize returned

VARIABLES
    \* ---- day 18: one call of LavaductLagoon::dig ----
    dig_plan,   \* the instructions of the iterator: a sequence of [direction, amount]
    dig_cur,    \* `cur` of make_veritices: [x, y]
    verticies,  \* `verticies` of make_veritices
    perimeter,  \* `perimeter` of make_veritices
    d18pc,      \* "idle", "vertices" or "done"
    dig_result  \* what dig returned

VARIABLES
    \* ---- day 13: summarize or fix_smudge on one pattern ----
    mirror_text, \* the lines of the pattern: a sequence of sequences of "#" and "."
    bit_mirror, \* the BitMirror from_str built: [horizontal, vertical, width, height]
    smudge,     \* whether fix_smudge makes the calls (the one_off functions)
    line_i,     \* the `i` of the running 'outer loop
    vertical_res, \* reflect_vertical(_one_off)().unwrap_or(0)
    d13pc,      \* "idle", "vertical", "horizontal" or "done"
    incidence   \* what the closure of summarize / fix_smudge returned

VARIABLES
    \* ---- day 6: one call of ways_to_beat ----
    race_time,   \* the argument `time`
    race_record, \* the argument `record`
    race_lower,  \* the local `lower`
    race_upper,  \* the local `upper`
    d6pc,        \* "idle", "lower", "upper", "done", "panicked" or "wrapped"
    race_ways    \* what ways_to_beat returned

VARIABLES
    \* ---- aoc-plumbing: one Solution, shown and serialized ----
    sol_made,    \* the Solution: [part_one, part_two], each part a value
    made_by,     \* "none", "new" or "default"
    sol_text,    \* the characters Display::fmt wrote, << >> before the call
    sol_members, \* the members the derived Serialize has handed to the serializer
    sol_field,   \* the number of the next field to serialize
    sol_json,    \* the characters of serde_json::to_string, << >> before its end
    solpc        \* "idle", "made", "struct" or "end": where serialization is

VARIABLES
    \* ---- day 14: part_one and part_two called on one parsed instance ----
    dish2_grid, \* the parsed grid: [height, width, cubes, rounds]
    dish2,      \* self.dish2: [rounds, rounds_in_rows, rounds_in_cols], indices from 1
    dish_calls, \* the calls that have returned: a sequence of [part, value]
    d2pc,       \* "idle", "ready", or where cycle is: "north", "west", "south", "east", "check"
    spin_idx,   \* cycle_idx of the running cycle
    spin_loads, \* loads of the running cycle
    spin_cache, \* cache of the running cycle: key -> cycle_idx
    last_tilt,  \* the tilt made last: "none", "north", "west", "south" or "east"
    tilt_from,  \* the rounds of the tilted dish before that tilt
    tilt_to     \* the tilted dish after it: self.dish2 or the clone of part_one

cliVars == <<cmd, fileOk, behav, pc, target, fileRead, inst, calls, partial, stdout, result>>

d20Vars == <<mods, cck, d20pc, pulses, presses, low_pulses, high_pulses, count,
             cycle_markers, d20result, sent, delivered, poppedLow, poppedHigh,
             firstHigh>>

thrVars == <<thrInput, ppc, threads, joined, got, fsResult>>

d19Vars == <<workflows, d19pc, intervals, accepted, d19result>>

d14Vars == <<dish, rounds, startRounds, cycleCount, cycle_idx, loads, cache, d14pc, d14result>>

d23Vars == <<graph, N, sloped, goal, starting_points, depth, d23pc, d23result>>

d8Vars == <<instructions, mapping, ghosts, d8pc, d8result>>

d15Vars == <<processed, buckets, lens_p1, d15pc, lens_p2>>

d16Vars == <<lava_grid, overflow_checks, starting_particles, beams, visited, energized, propagated, d16pc, d16result>>

d5Vars == <<seeds, range_maps, map_idx, ranges, next_ranges, d5pc, d5result>>

d10Vars == <<sketch, pipe_maze, maze_start, actor_one, actor_snapshots, snapshot_idx, loop_steps, num_inside, cur_locations, d10pc>>

d22Vars == <<snapshot, bricks, topology, above, below, required, settle_idx, required_idxs, d22pc, slab_p1, slab_p2>>

d12Vars == <<spring, unfolded, springs_input, springs_groups, dp_prev, dp_cur, group_idx, d12pc, d12result>>

d7Vars == <<camel_input, hands, d7pc, camel_p1, camel_p2>>

d17Vars == <<blocks, run_min, run_max, first_call, best_cost, settled_nodes, d17pc, heat_loss>>

d18Vars == <<dig_plan, dig_cur, verticies, perimeter, d18pc, dig_result>>

d13Vars == <<mirror_text, bit_mirror, smudge, line_i, vertical_res, d13pc, incidence>>

d6Vars == <<race_time, race_record, race_lower, race_upper, d6pc, race_ways>>

solVars == <<sol_made, made_by, sol_text, sol_members, sol_field, sol_json, solpc>>

dish2Vars == <<dish2_grid, dish2, dish_calls, d2pc, spin_idx, spin_loads, spin_cache, last_tilt, tilt_from, tilt_to>>

vars == <<cliVars, d20Vars, thrVars, d19Vars, d14Vars, d23Vars, d8Vars, d15Vars, d16Vars, d5Vars, d10Vars, d22Vars, d12Vars, d7Vars, d17Vars, d18Vars, d13Vars, d6Vars, solVars, dish2Vars>>

notCli == <<d20Vars, thrVars, d19Vars, d14Vars, d23Vars, d8Vars, d15Vars, d16Vars, d5Vars, d10Vars, d22Vars, d12Vars, d7Vars, d17Vars, d18Vars, d13Vars, d6Vars, solVars, dish2Vars>>
notDay20 == <<cliVars, thrVars, d19Vars, d14Vars, d23Vars, d8Vars, d15Vars, d16Vars, d5Vars, d10Vars, d22Vars, d12Vars, d7Vars, d17Vars, d18Vars, d13Vars, d6Vars, solVars, dish2Vars>>
notThreads == <<cliVars, d20Vars, d19Vars, d14Vars, d23Vars, d8Vars, d15Vars, d16Vars, d5Vars, d10Vars, d22Vars, d12Vars, d7Vars, d17Vars, d18Vars, d13Vars, d6Vars, solVars, dish2Vars>>
notDay19 == <<cliVars, d20Vars, thrVars, d14Vars, d23Vars, d8Vars, d15Vars, d16Vars, d5Vars, d10Vars, d22Vars, d12Vars, d7Vars, d17Vars, d18Vars, d13Vars, d6Vars, solVars, dish2Vars>>
notDay14 == <<cliVars, d20Vars, thrVars, d19Vars, d23Vars, d8Vars, d15Vars, d16Vars, d5Vars, d10Vars, d22Vars, d12Vars, d7Vars, d17Vars, d18Vars, d13Vars, d6Vars, solVars, dish2Vars>>
notDay23 == <<cliVars, d20Vars, thrVars, d19Vars, d14Vars, d8Vars, d15Vars, d16Vars, d5Vars, d10Vars, d22Vars, d12Vars, d7Vars, d17Vars, d18Vars, d13Vars, d6Vars, solVars, dish2Vars>>
notDay8 == <<cliVars, d20Vars, thrVars, d19Vars, d14Vars, d23Vars, d15Vars, d16Vars, d5Vars, d10Vars, d22Vars, d12Vars, d7Vars, d17Vars, d18Vars, d13Vars, d6Vars, solVars, dish2Vars>>
notDay15 == <<cliVars, d20Vars, thrVars, d19Vars, d14Vars, d23Vars, d8Vars, d16Vars, d5Vars, d10Vars, d22Vars, d12Vars, d7Vars, d17Vars, d18Vars, d13Vars, d6Vars, solVars, dish2Vars>>
notDay16 == <<cliVars, d20Vars, thrVars, d19Vars, d14Vars, d23Vars, d8Vars, d15Vars, d5Vars, d10Vars, d22Vars, d12Vars, d7Vars, d17Vars, d18Vars, d13Vars, d6Vars, solVars, dish2Vars>>
notDay5 == <<cliVars, d20Vars, thrVars, d19Vars, d14Vars, d23Vars, d8Vars, d15Vars, d16Vars, d10Vars, d22Vars, d12Vars, d7Vars, d17Vars, d18Vars, d13Vars, d6Vars, solVars, dish2Vars>>
notDay10 == <<cliVars, d20Vars, thrVars, d19Vars, d14Vars, d23Vars, d8Vars, d15Vars, d16Vars, d5Vars, d22Vars, d12Vars, d7Vars, d17Vars, d18Vars, d13Vars, d6Vars, solVars, dish2Vars>>
notDay22 == <<cliVars, d20Vars, thrVars, d19Vars, d14Vars, d23Vars, d8Vars, d15Vars, d16Vars, d5Vars, d10Vars, d12Vars, d7Vars, d17Vars, d18Vars, d13Vars, d6Vars, solVars, dish2Vars>>
notDay12 == <<cliVars, d20Vars, thrVars, d19Vars, d14Vars, d23Vars, d8Vars, d15Vars, d16Vars, d5Vars, d10Vars, d22Vars, d7Vars, d17Vars, d18Vars, d13Vars, d6Vars, solVars, dish2Vars>>
notDay7 == <<cliVars, d20Vars, thrVars, d19Vars, d14Vars, d23Vars, d8Vars, d15Vars, d16Vars, d5Vars, d10Vars, d22Vars, d12Vars, d17Vars, d18Vars, d13Vars, d6Vars, solVars, dish2Vars>>
notDay17 == <<cliVars, d20Vars, thrVars, d19Vars, d14Vars, d23Vars, d8Vars, d15Vars, d16Vars, d5Vars, d10Vars, d22Vars, d12Vars, d7Vars, d18Vars, d13Vars, d6Vars, solVars, dish2Vars>>
notDay18 == <<cliVars, d20Vars, thrVars, d19Vars, d14Vars, d23Vars, d8Vars, d15Vars, d16Vars, d5Vars, d10Vars, d22Vars, d12Vars, d7Vars, d17Vars, d13Vars, d6Vars, solVars, dish2Vars>>
notDay13 == <<cliVars, d20Vars, thrVars, d19Vars, d14Vars, d23Vars, d8Vars, d15Vars, d16Vars, d5Vars, d10Vars, d22Vars, d12Vars, d7Vars, d17Vars, d18Vars, d6Vars, solVars, dish2Vars>>
notDay6 == <<cliVars, d20Vars, thrVars, d19Vars, d14Vars, d23Vars, d8Vars, d15Vars, d16Vars, d5Vars, d10Vars, d22Vars, d12Vars, d7Vars, d17Vars, d18Vars, d13Vars, solVars, dish2Vars>>
notSolution == <<cliVars, d20Vars, thrVars, d19Vars, d14Vars, d23Vars, d8Vars, d15Vars, d16Vars, d5Vars, d10Vars, d22Vars, d12Vars, d7Vars, d17Vars, d18Vars, d13Vars, d6Vars, dish2Vars>>
notDish2 == <<cliVars, d20Vars, thrVars, d19Vars, d14Vars, d23Vars, d8Vars, d15Vars, d16Vars, d5Vars, d10Vars, d22Vars, d12Vars, d7Vars, d17Vars, d18Vars, d13Vars, d6Vars, solVars>>

(***************************************************************************)
(* aoc-cli: the dispatch table and the commands                            *)
(***************************************************************************)

\* generate_cli! { (Trebuchet, 1), ... }: the (name, literal) pairs, in order.
Table ==
    << <<"Trebuchet", 1>>, <<"CubeConundrum", 2>>, <<"GearRatios", 3>>,
       <<"Scratchcards", 4>>, <<"YouGiveASeedAFertilizer", 5>>, <<"WaitForIt", 6>>,
       <<"CamelCards", 7>>, <<"HauntedWasteland", 8>>, <<"MirageMaintenance", 9>>,
       <<"PipeMaze", 10>>, <<"CosmicExpansion", 11>>, <<"HotSprings", 12>>,
       <<"PointOfIncidence", 13>>, <<"ParabolicReflectorDish", 14>>,
       <<"LensLibrary", 15>>, <<"TheFloorWillBeLava", 16>>,
       <<"ClumsyCrucible", 17>>, <<"LavaductLagoon", 18>> >>

\* Problem::DAY of every solver crate of the repository.
DAY ==
    [ Trebuchet |-> 1, CubeConundrum |-> 2, GearRatios |-> 3, Scratchcards |-> 4,
      YouGiveASeedAFertilizer |-> 5, WaitForIt |-> 6, CamelCards |-> 7,
      HauntedWasteland |-> 8, MirageMaintenance |-> 9, PipeMaze |-> 10,
      CosmicExpansion |-> 11, HotSprings |-> 12, PointOfIncidence |-> 13,
      ParabolicReflectorDish |-> 14, LensLibrary |-> 15, TheFloorWillBeLava |-> 16,
      ClumsyCrucible |-> 17, LavaductLagoon |-> 18, Aplenty |-> 19,
      PulsePropagation |-> 20, StepCounter |-> 21, SandSlabs |-> 22,
      ALongWalk |-> 23, NeverTellMeTheOdds |-> 24, Snowverload |-> 25 ]

Solvers == DOMAIN DAY

\* The largest day number the `run` subcommand is tried with (one past the
\* calendar, so that a number no crate declares is tried too).
MaxRunDay == 26

TableNames == { Table[i][1] : i \in 1..Len(Table) }

\* The arm of Run::run's `match self.day` that is taken: the first `$day =>`
\* arm whose literal equals the day, or "none" for the `_` arm.
MatchArm(day) ==
    LET hits == { i \in 1..Len(Table) : Table[i][2] = day }
    IN  IF hits = {} THEN "none"
        ELSE Table[CHOOSE i \in hits : \A j \in hits : i <= j][1]

\* What a solver does on an input: Ok, Err, or a panic that unwinds through
\* solve (unwrap, unreachable!, an index out of range).
Outcomes == {"ok", "err", "panic"}

Commands ==
    [kind : {"solver"}, name : TableNames, day : {0}, json : BOOLEAN]
    \cup [kind : {"run"}, name : {"Run"}, day : 0..MaxRunDay, json : BOOLEAN]
    \cup [kind : {"completions"}, name : {"GenerateCompletions"}, day : {0}, json : {FALSE}]

\* The value part_one / part_two of solver t computes (opaque to the plumbing).
PartValue(t, part) == <<t, part>>

\* Solution::new(part_one, part_two)
Solution(p1, p2) == [part_one |-> p1, part_two |-> p2]

\* impl Display for Solution / serde_json::to_string(&solution)
Render(json, sol) ==
    IF json THEN [fmt |-> "json", body |-> <<"part_one", sol.part_one, "part_two", sol.part_two>>]
    ELSE [fmt |-> "text", body |-> <<"part 1: ", sol.part_one, "part 2: ", sol.part_two>>]

\* NotImplementedLine with the json flag ignored.
NotImplementedPlain(json) ==
    [fmt |-> "text", body |-> <<"not implemented">>]

\* The two println! of the `_` arm of Run::run.
NotImplementedLine(json) ==
    IF json THEN [fmt |-> "json", body |-> <<"\"not implemented\"">>]
    ELSE [fmt |-> "text", body |-> <<"not implemented">>]

InitCli ==
    /\ cmd \in Commands
    /\ fileOk \in BOOLEAN
    /\ behav \in [parse : Outcomes, p1 : Outcomes, p2 : Outcomes]
    /\ pc = "start"
    /\ target = "none"
    /\ fileRead = FALSE
    /\ inst = 0
    /\ calls = <<>>
    /\ partial = <<>>
    /\ stdout = <<>>
    /\ result = "none"

\* Commands::run, arm Self::GenerateCompletions(cmd) => cmd.run()
GenerateCompletionsRun ==
    /\ pc = "start"
    /\ cmd.kind = "completions"
    /\ stdout' = Append(stdout, [fmt |-> "zsh", body |-> <<"aoc">>])
    /\ result' = "Ok"
    /\ pc' = "done"
    /\ UNCHANGED <<cmd, fileOk, behav, target, fileRead, inst, calls, partial>>
    /\ UNCHANGED notCli

\* Commands::run, arm Self::$name(cmd) => cmd.run(), and Solver::<T>::run
SolverRun ==
    /\ pc = "start"
    /\ cmd.kind = "solver"
    /\ target' = cmd.name
    /\ pc' = "read"
    /\ UNCHANGED <<cmd, fileOk, behav, fileRead, inst, calls, partial, stdout, result>>
    /\ UNCHANGED notCli

\* Run::run, an arm `$day => _run::<$name>(&self.input, self.json)`
RunDay ==
    /\ pc = "start"
    /\ cmd.kind = "run"
    /\ MatchArm(cmd.day) # "none"
    /\ target' = MatchArm(cmd.day)
    /\ pc' = "read"
    /\ UNCHANGED <<cmd, fileOk, behav, fileRead, inst, calls, partial, stdout, result>>
    /\ UNCHANGED notCli

\* Run::run, the `_` arm
RunNotImplemented ==
    /\ pc = "start"
    /\ cmd.kind = "run"
    /\ MatchArm(cmd.day) = "none"
    /\ stdout' = Append(stdout, NotImplementedLine(cmd.json))
    /\ result' = "Ok"
    /\ pc' = "done"
    /\ UNCHANGED <<cmd, fileOk, behav, target, fileRead, inst, calls, partial>>
    /\ UNCHANGED notCli

\* ReadInput with the read error dropped (read_to_string(..).unwrap_or_default()).
ReadInputUnchecked ==
    /\ pc = "read"
    /\ fileRead' = TRUE
    /\ pc' = "instance"
    /\ UNCHANGED <<cmd, fileOk, behav, target, inst, calls, partial, stdout, result>>
    /\ UNCHANGED notCli

\* _run: std::fs::read_to_string(input_file).context("Could not read input file")?
ReadInput ==
    /\ pc = "read"
    /\ fileRead' = TRUE
    /\ IF fileOk
       THEN /\ pc' = "instance"
            /\ UNCHANGED result
       ELSE /\ pc' = "done"
            /\ result' = "Err: Could not read input file"
    /\ UNCHANGED <<cmd, fileOk, behav, target, inst, calls, partial, stdout>>
    /\ UNCHANGED notCli

\* How _run leaves solve when a Problem method did not return Ok: `?` and
\* .context("Failed to solve")? for an Err, the unwinding of a panic otherwise.
LeaveSolve(outcome) ==
    IF outcome = "err"
    THEN pc' = "done" /\ result' = "Err: Failed to solve"
    ELSE pc' = "aborted" /\ result' = "panic"

\* Problem::solve: let mut inst = Self::instance(raw_input)?;
SolveInstance ==
    /\ pc = "instance"
    /\ inst' = inst + 1
    /\ calls' = Append(calls, <<"instance", target, inst + 1>>)
    /\ IF behav.parse = "ok"
       THEN pc' = "part_one" /\ UNCHANGED result
       ELSE LeaveSolve(behav.parse)
    /\ UNCHANGED <<cmd, fileOk, behav, target, fileRead, partial, stdout>>
    /\ UNCHANGED notCli

\* SolvePartOne without the `?`: an Err of part_one does not leave solve.
SolvePartOneNoTry ==
    /\ pc = "part_one"
    /\ calls' = Append(calls, <<"part_one", target, inst>>)
    /\ IF behav.p1 = "panic"
       THEN /\ LeaveSolve(behav.p1)
            /\ UNCHANGED partial
       ELSE /\ pc' = "part_two"
            /\ partial' = Append(partial, PartValue(target, 1))
            /\ UNCHANGED result
    /\ UNCHANGED <<cmd, fileOk, behav, target, fileRead, inst, stdout>>
    /\ UNCHANGED notCli

\* Problem::solve: the first argument of Solution::new, inst.part_one()?
SolvePartOne ==
    /\ pc = "part_one"
    /\ calls' = Append(calls, <<"part_one", target, inst>>)
    /\ IF behav.p1 = "ok"
       THEN /\ pc' = "part_two"
            /\ partial' = Append(partial, PartValue(target, 1))
            /\ UNCHANGED result
       ELSE /\ LeaveSolve(behav.p1)
            /\ UNCHANGED partial
    /\ UNCHANGED <<cmd, fileOk, behav, target, fileRead, inst, stdout>>
    /\ UNCHANGED notCli

\* Problem::solve: the second argument of Solution::new, inst.part_two()?
SolvePartTwo ==
    /\ pc = "part_two"
    /\ calls' = Append(calls, <<"part_two", target, inst>>)
    /\ IF behav.p2 = "ok"
       THEN /\ pc' = "print"
            /\ partial' = Append(partial, PartValue(target, 2))
            /\ UNCHANGED result
       ELSE /\ LeaveSolve(behav.p2)
            /\ UNCHANGED partial
    /\ UNCHANGED <<cmd, fileOk, behav, target, fileRead, inst, stdout>>
    /\ UNCHANGED notCli

\* _run: the println! of the solution (json or plain) and Ok(())
PrintSolution ==
    /\ pc = "print"
    /\ stdout' = Append(stdout, Render(cmd.json, Solution(partial[1], partial[2])))
    /\ result' = "Ok"
    /\ pc' = "done"
    /\ UNCHANGED <<cmd, fileOk, behav, target, fileRead, inst, calls, partial>>
    /\ UNCHANGED notCli

NextCli ==
    \/ GenerateCompletionsRun
    \/ SolverRun
    \/ RunDay
    \/ RunNotImplemented
    \/ ReadInput
    \/ SolveInstance
    \/ SolvePartOne
    \/ SolvePartTwo
    \/ PrintSolution

\* The state of the parts of the model a specification does not run.
IdleCli ==
    /\ cmd = [kind |-> "completions", name |-> "GenerateCompletions", day |-> 0, json |-> FALSE]
    /\ fileOk = FALSE
    /\ behav = [parse |-> "ok", p1 |-> "ok", p2 |-> "ok"]
    /\ pc = "idle"
    /\ target = "none"
    /\ fileRead = FALSE
    /\ inst = 0
    /\ calls = <<>>
    /\ partial = <<>>
    /\ stdout = <<>>
    /\ result = "none"

(***************************************************************************)
(* Day 20, pulse propagation.  Module names stand for their xxh3_64 keys;  *)
(* "none" stands for the key 0 that cycle_conjunction_key starts with.     *)
(***************************************************************************)

\* for _ in 0..1000
NumPresses == 1000

\* The longest destination list of a module in the networks part one is run
\* on, and in those part two is run on.
MaxDests == 1
MaxDestsUntil == 2

\* The most pulses one button press may deliver before the model gives the
\* press up as not ending.
MaxDeliveries == 12

\* The most button presses push_button_until is followed for.
MaxCount == 4

EmptyInputs == [k \in {} |-> "Low"]

\* FxHashMap::insert on a map held as a function
MapInsert(f, k, v) == [x \in DOMAIN f \cup {k} |-> IF x = k THEN v ELSE f[x]]

\* Sequences over S without repetition, of length 1..n
DestLists(S, n) ==
    { q \in UNION { [1..k -> S] : k \in 1..n } :
        \A i, j \in 1..Len(q) : i # j => q[i] # q[j] }

SeqRange(q) == { q[i] : i \in 1..Len(q) }

\* What parse_comm_mods returns for `broadcaster -> ...`, `%name -> ...` and
\* `&name -> ...` lines: FlipFlop { state: false }, Conjunction { inputs: {} }.
Parsed(kind, dests) ==
    [kind |-> kind, state |-> FALSE, inputs |-> EmptyInputs, destinations |-> dests]

\* The networks of the parsed map: a broadcaster with up to nb destinations and
\* the modules `names`, each a flip-flop or a conjunction with up to n
\* destinations among the modules and `rx`.
Networks(names, nb, n) ==
    { [m \in names \cup {"broadcaster"} |->
          IF m = "broadcaster" THEN Parsed("Broadcast", b) ELSE Parsed(k[m], d[m])] :
        b \in DestLists(names, nb),
        k \in [names -> {"FlipFlop", "Conjunction"}],
        d \in [names -> DestLists(names \cup {"rx"}, n)] }

\* The network of tests::example.
ExampleNet ==
    [m \in {"broadcaster", "a", "b", "c", "inv"} |->
        CASE m = "broadcaster" -> Parsed("Broadcast", <<"a", "b", "c">>)
          [] m = "a" -> Parsed("FlipFlop", <<"b">>)
          [] m = "b" -> Parsed("FlipFlop", <<"c">>)
          [] m = "c" -> Parsed("FlipFlop", <<"inv">>)
          [] m = "inv" -> Parsed("Conjunction", <<"a">>)]

\* from_str: every conjunction remembers Low for every module that lists it
\* as a destination.
WithInputs(parsed) ==
    [m \in DOMAIN parsed |->
        IF parsed[m].kind = "Conjunction"
        THEN [parsed[m] EXCEPT !.inputs =
                [k \in { k \in DOMAIN parsed : m \in SeqRange(parsed[k].destinations) }
                    |-> "Low"]]
        ELSE parsed[m]]

\* from_str: cycle_conjunction_key is the last key, in the map's iteration
\* order, of a module that lists rx; any of them can be the last; 0 if none.
CycleKeys(parsed) ==
    LET feeders == { k \in DOMAIN parsed : "rx" \in SeqRange(parsed[k].destinations) }
    IN  IF feeders = {} THEN {"none"} ELSE feeders

AllHigh(inputs) == \A k \in DOMAIN inputs : inputs[k] = "High"

Fanout(from, dests, pulse) == [i \in 1..Len(dests) |-> <<from, dests[i], pulse>>]

\* Handle with the conjunction deciding before it records the sender's pulse.
HandleStale(ms, p) ==
    LET origin == p[1]
        dest == p[2]
        pulse == p[3]
    IN  IF dest \notin DOMAIN ms
        THEN [mods |-> ms, next_pulse |-> "none", out |-> <<>>]
        ELSE LET m == ms[dest] IN
            CASE m.kind = "FlipFlop" ->
                    IF pulse = "High"
                    THEN [mods |-> ms, next_pulse |-> "none", out |-> <<>>]
                    ELSE LET state == ~m.state
                             next_pulse == IF state THEN "High" ELSE "Low"
                         IN  [mods |-> [ms EXCEPT ![dest].state = state],
                              next_pulse |-> next_pulse,
                              out |-> Fanout(dest, m.destinations, next_pulse)]
              [] m.kind = "Conjunction" ->
                    LET inputs == MapInsert(m.inputs, origin, pulse)
                        next_pulse == IF AllHigh(m.inputs) THEN "Low" ELSE "High"
                    IN  [mods |-> [ms EXCEPT ![dest].inputs = inputs],
                         next_pulse |-> next_pulse,
                         out |-> Fanout(dest, m.destinations, next_pulse)]
              [] m.kind = "Broadcast" ->
                    [mods |-> ms, next_pulse |-> pulse,
                     out |-> Fanout(dest, m.destinations, pulse)]

\* The body of `while let Some((origin, dest, pulse)) = pulses.pop_front()`:
\* the modules after the pulse is handled, the pulse sent on and the queue
\* entries pushed.
Handle(ms, p) ==
    LET origin == p[1]
        dest == p[2]
        pulse == p[3]
    IN  IF dest \notin DOMAIN ms
        THEN [mods |-> ms, next_pulse |-> "none", out |-> <<>>]
        ELSE LET m == ms[dest] IN
            CASE m.kind = "FlipFlop" ->
                    IF pulse = "High"
                    THEN [mods |-> ms, next_pulse |-> "none", out |-> <<>>]
                    ELSE LET state == ~m.state
                             next_pulse == IF state THEN "High" ELSE "Low"
                         IN  [mods |-> [ms EXCEPT ![dest].state = state],
                              next_pulse |-> next_pulse,
                              out |-> Fanout(dest, m.destinations, next_pulse)]
              [] m.kind = "Conjunction" ->
                    LET inputs == MapInsert(m.inputs, origin, pulse)
                        next_pulse == IF AllHigh(inputs) THEN "Low" ELSE "High"
                    IN  [mods |-> [ms EXCEPT ![dest].inputs = inputs],
                         next_pulse |-> next_pulse,
                         out |-> Fanout(dest, m.destinations, next_pulse)]
              [] m.kind = "Broadcast" ->
                    [mods |-> ms, next_pulse |-> pulse,
                     out |-> Fanout(dest, m.destinations, pulse)]

IdleDay20 ==
    /\ mods = <<>>
    /\ cck = "none"
    /\ d20pc = "idle"
    /\ pulses = <<>>
    /\ presses = 0
    /\ low_pulses = 0
    /\ high_pulses = 0
    /\ count = 0
    /\ cycle_markers = <<>>
    /\ d20result = 0
    /\ sent = <<>>
    /\ delivered = <<>>
    /\ poppedLow = 0
    /\ poppedHigh = 0
    /\ firstHigh = EmptyInputs

\* A parsed instance on which `position` is about to run.
ParsedDay20(nets, position) ==
    /\ \E parsed \in nets :
        /\ mods = WithInputs(parsed)
        /\ cck \in CycleKeys(parsed)
    /\ d20pc = position
    /\ pulses = <<>>
    /\ presses = 0
    /\ low_pulses = 0
    /\ high_pulses = 0
    /\ count = 0
    /\ cycle_markers = <<>>
    /\ d20result = 0
    /\ sent = <<>>
    /\ delivered = <<>>
    /\ poppedLow = 0
    /\ poppedHigh = 0
    /\ firstHigh = EmptyInputs

\* ---- part one: push_button ----

InitDay20 == ParsedDay20(Networks({"a", "b"}, 2, MaxDests) \cup {ExampleNet}, "p1")

\* pulses.push_back((button, broadcaster, Pulse::Low)); low_pulses += 1;
PushButton ==
    /\ d20pc = "p1"
    /\ pulses = <<>>
    /\ presses < NumPresses
    /\ presses' = presses + 1
    /\ pulses' = << <<"button", "broadcaster", "Low">> >>
    /\ low_pulses' = low_pulses + 1
    /\ sent' = << <<"button", "broadcaster", "Low">> >>
    /\ delivered' = <<>>
    /\ UNCHANGED <<mods, cck, d20pc, high_pulses, count, cycle_markers, d20result,
                   poppedLow, poppedHigh, firstHigh>>
    /\ UNCHANGED notDay20

\* One iteration of push_button's `while let Some(..) = pulses.pop_front()`
Deliver ==
    /\ d20pc = "p1"
    /\ pulses # <<>>
    /\ Len(delivered) < MaxDeliveries
    /\ LET p == Head(pulses)
           h == Handle(mods, p)
       IN  /\ mods' = h.mods
           /\ pulses' = Tail(pulses) \o h.out
           /\ low_pulses' = low_pulses + (IF h.next_pulse = "Low" THEN Len(h.out) ELSE 0)
           /\ high_pulses' = high_pulses + (IF h.next_pulse = "High" THEN Len(h.out) ELSE 0)
           /\ sent' = sent \o h.out
           /\ delivered' = Append(delivered, p)
           /\ poppedLow' = poppedLow + (IF p[3] = "Low" THEN 1 ELSE 0)
           /\ poppedHigh' = poppedHigh + (IF p[3] = "High" THEN 1 ELSE 0)
    /\ UNCHANGED <<cck, d20pc, presses, count, cycle_markers, d20result, firstHigh>>
    /\ UNCHANGED notDay20

\* low_pulses * high_pulses, after the last press
ReturnProduct ==
    /\ d20pc = "p1"
    /\ pulses = <<>>
    /\ presses = NumPresses
    /\ d20result' = low_pulses * high_pulses
    /\ d20pc' = "p1done"
    /\ UNCHANGED <<mods, cck, pulses, presses, low_pulses, high_pulses, count,
                   cycle_markers, sent, delivered, poppedLow, poppedHigh, firstHigh>>
    /\ UNCHANGED notDay20

NextDay20 ==
    \/ PushButton
    \/ Deliver
    \/ ReturnProduct

\* ---- part two: push_button_until ----

RECURSIVE ProductOver(_, _)
\* cycle_markers.values().map(|v| v[0]).product()
ProductOver(markers, keys) ==
    IF keys = {} THEN 1
    ELSE LET k == CHOOSE x \in keys : TRUE
         IN  markers[k][1] * ProductOver(markers, keys \ {k})

InitDay20Until ==
    ParsedDay20(Networks({"a", "b", "c"}, 1, MaxDestsUntil), "p2start")

\* push_button_until up to `let mut pulses`: the conjunction is looked up with
\* unwrap() and matched with unreachable!(), then one marker list per input.
StartUntil ==
    /\ d20pc = "p2start"
    /\ IF cck \in DOMAIN mods /\ mods[cck].kind = "Conjunction"
       THEN /\ cycle_markers' = [k \in DOMAIN mods[cck].inputs |-> <<>>]
            /\ d20pc' = "p2"
       ELSE /\ d20pc' = "p2panic"
            /\ UNCHANGED cycle_markers
    /\ UNCHANGED <<mods, cck, pulses, presses, low_pulses, high_pulses, count,
                   d20result, sent, delivered, poppedLow, poppedHigh, firstHigh>>
    /\ UNCHANGED notDay20

\* loop { pulses.push_back((button, broadcaster, Pulse::Low));
PushButtonUntil ==
    /\ d20pc = "p2"
    /\ pulses = <<>>
    /\ presses = count
    /\ count < MaxCount
    /\ presses' = presses + 1
    /\ pulses' = << <<"button", "broadcaster", "Low">> >>
    /\ sent' = << <<"button", "broadcaster", "Low">> >>
    /\ delivered' = <<>>
    /\ UNCHANGED <<mods, cck, d20pc, low_pulses, high_pulses, count, cycle_markers,
                   d20result, poppedLow, poppedHigh, firstHigh>>
    /\ UNCHANGED notDay20

\* One iteration of push_button_until's `while let Some(..) = pulses.pop_front()`
DeliverUntil ==
    /\ d20pc = "p2"
    /\ pulses # <<>>
    /\ Len(delivered) < MaxDeliveries
    /\ LET p == Head(pulses)
           origin == p[1]
           dest == p[2]
           pulse == p[3]
           h == Handle(mods, p)
           marked == dest \in DOMAIN mods /\ mods[dest].kind = "Conjunction"
                        /\ dest = cck /\ pulse = "High"
           e == IF origin \in DOMAIN cycle_markers THEN cycle_markers[origin] ELSE <<>>
           markers == IF marked
                      THEN MapInsert(cycle_markers, origin, Append(e, count + 1))
                      ELSE cycle_markers
       IN  /\ delivered' = Append(delivered, p)
           /\ poppedLow' = poppedLow + (IF pulse = "Low" THEN 1 ELSE 0)
           /\ poppedHigh' = poppedHigh + (IF pulse = "High" THEN 1 ELSE 0)
           /\ firstHigh' = IF marked /\ origin \notin DOMAIN firstHigh
                           THEN MapInsert(firstHigh, origin, presses)
                           ELSE firstHigh
           /\ IF dest = "rx" /\ pulse = "Low"
              THEN /\ d20result' = count
                   /\ d20pc' = "p2rx"
                   /\ pulses' = Tail(pulses)
                   /\ UNCHANGED <<mods, cycle_markers, sent>>
              ELSE /\ mods' = h.mods
                   /\ cycle_markers' = markers
                   /\ IF marked /\ \A k \in DOMAIN markers : markers[k] # <<>>
                      THEN /\ d20result' = ProductOver(markers, DOMAIN markers)
                           /\ d20pc' = "p2done"
                           /\ pulses' = Tail(pulses)
                           /\ UNCHANGED sent
                      ELSE /\ pulses' = Tail(pulses) \o h.out
                           /\ sent' = sent \o h.out
                           /\ UNCHANGED <<d20result, d20pc>>
    /\ UNCHANGED <<cck, presses, low_pulses, high_pulses, count>>
    /\ UNCHANGED notDay20

\* count += 1; at the end of `loop`'s body
EndPress ==
    /\ d20pc = "p2"
    /\ pulses = <<>>
    /\ presses = count + 1
    /\ count' = count + 1
    /\ UNCHANGED <<mods, cck, d20pc, pulses, presses, low_pulses, high_pulses,
                   cycle_markers, d20result, sent, delivered, poppedLow, poppedHigh,
                   firstHigh>>
    /\ UNCHANGED notDay20

NextDay20Until ==
    \/ StartUntil
    \/ PushButtonUntil
    \/ DeliverUntil
    \/ EndPress

(***************************************************************************)
(* Days 17 and 23: from_str runs the two parts on two spawned threads.     *)
(* Both days share the shape: parse, Arc the parsed data, spawn p1, spawn  *)
(* p2, join p1 with `?`, join p2 with `?`, Ok(Self { p1, p2 }).            *)
(***************************************************************************)

\* The number of cells of the parsed grid and the largest cell value the
\* threads are run on.
GridLen == 2
MaxCell == 2

\* What a thread folds over the shared data: thread 1 stands for
\* minimize(1, 3) / longest_distance(.., true), thread 2 for minimize(4, 10) /
\* longest_distance(.., false).  Each reads one cell per step.
Fold(t, acc, cell) == IF t = 1 THEN acc + cell ELSE acc + 2 * cell + 1

RECURSIVE Sequential(_, _, _)
\* The part's value computed on the calling thread, cell by cell.
Sequential(t, grid, n) ==
    IF n = 0 THEN 0 ELSE Fold(t, Sequential(t, grid, n - 1), grid[n])

FreshThread == [st |-> "unspawned", idx |-> 0, acc |-> 0]

IdleThreads ==
    /\ thrInput = [grid |-> <<>>, panics |-> {}]
    /\ ppc = "idle"
    /\ threads = <<FreshThread, FreshThread>>
    /\ joined = {}
    /\ got = <<>>
    /\ fsResult = "none"

\* from_str up to the first thread::spawn: the input decides the grid and
\* which of the two computations panic on it (an index out of range on a
\* ragged grid, graph[0].neighbors[0] on a maze without junctions).
InitThreads ==
    /\ thrInput \in [grid : [1..GridLen -> 0..MaxCell], panics : SUBSET {1, 2}]
    /\ ppc = "spawn1"
    /\ threads = <<FreshThread, FreshThread>>
    /\ joined = {}
    /\ got = <<>>
    /\ fsResult = "none"

\* let p1_handle = thread::spawn(..); let p2_handle = thread::spawn(..);
Spawn ==
    /\ ppc \in {"spawn1", "spawn2"}
    /\ LET t == IF ppc = "spawn1" THEN 1 ELSE 2
       IN  threads' = [threads EXCEPT ![t].st = "running"]
    /\ ppc' = IF ppc = "spawn1" THEN "spawn2" ELSE "join1"
    /\ UNCHANGED <<thrInput, joined, got, fsResult>>
    /\ UNCHANGED notThreads

\* One step of a spawned closure: it reads the shared data and writes only
\* its own locals; after the last cell it returns its value or panics.
ThreadStep(t) ==
    /\ threads[t].st = "running"
    /\ IF threads[t].idx < GridLen
       THEN threads' = [threads EXCEPT
                ![t].idx = @ + 1,
                ![t].acc = Fold(t, @, thrInput.grid[threads[t].idx + 1])]
       ELSE threads' = [threads EXCEPT
                ![t].st = IF t \in thrInput.panics THEN "panicked" ELSE "returned"]
    /\ UNCHANGED <<thrInput, ppc, joined, got, fsResult>>
    /\ UNCHANGED notThreads

\* pN_handle.join().map_err(|e| anyhow!(..))?  and, after the second, Ok(Self { p1, p2 })
Join ==
    /\ ppc \in {"join1", "join2"}
    /\ LET t == IF ppc = "join1" THEN 1 ELSE 2 IN
        /\ threads[t].st \in {"returned", "panicked"}
        /\ joined' = joined \cup {t}
        /\ IF threads[t].st = "panicked"
           THEN /\ fsResult' = "Err"
                /\ ppc' = "returned"
                /\ UNCHANGED got
           ELSE /\ got' = Append(got, threads[t].acc)
                /\ IF t = 1
                   THEN ppc' = "join2" /\ UNCHANGED fsResult
                   ELSE ppc' = "returned" /\ fsResult' = "Ok"
    /\ UNCHANGED <<thrInput, threads>>
    /\ UNCHANGED notThreads

NextThreads ==
    \/ Spawn
    \/ \E t \in {1, 2} : ThreadStep(t)
    \/ Join

(***************************************************************************)
(* Day 19: Aplenty.  Part one follows one part through the workflows;      *)
(* part two (combo_accepted) pushes interval sets through them.            *)
(***************************************************************************)

\* The ratings run over 1..MaxRating (IntervalSet::default has 1..4000), and
\* the conditional rules of the workflow sets test the keys in RuleKeys.
MaxRating == 3
Keys == {"x", "m", "a", "s"}
RuleKeys == {"x", "m"}

\* A Decision is "A" (Accept), "R" (Reject) or the name of a workflow.
AlwaysAccept == [kind |-> "AlwaysAccept", key |-> "x", value |-> 0, decision |-> "A"]
AlwaysReject == [kind |-> "AlwaysReject", key |-> "x", value |-> 0, decision |-> "R"]
RuleWorkflow(name) == [kind |-> "Workflow", key |-> "x", value |-> 0, decision |-> name]
Conditional(decisions) ==
    [kind : {"LessThan", "GreaterThan"}, key : RuleKeys,
     value : 1..MaxRating, decision : decisions]

\* The workflow sets: `in` with a conditional rule and a final rule that may
\* hand over to `px`, and `px` with a conditional rule and a final decision.
WorkflowSets ==
    { [name \in {"in", "px"} |-> IF name = "in" THEN <<c1, f1>> ELSE <<c2, f2>>] :
        c1 \in Conditional({"A", "R", "px"}),
        f1 \in {AlwaysAccept, AlwaysReject, RuleWorkflow("px")},
        c2 \in Conditional({"A", "R"}),
        f2 \in {AlwaysAccept, AlwaysReject} }

\* Rule::process: Some(decision) as <<decision>>, None as <<>>.
RuleProcess(rule, part) ==
    CASE rule.kind = "LessThan" /\ part[rule.key] < rule.value -> <<rule.decision>>
      [] rule.kind = "GreaterThan" /\ part[rule.key] > rule.value -> <<rule.decision>>
      [] rule.kind = "Workflow" -> <<rule.decision>>
      [] rule.kind = "AlwaysAccept" -> <<"A">>
      [] rule.kind = "AlwaysReject" -> <<"R">>
      [] OTHER -> <<>>

RECURSIVE WorkflowProcess(_, _, _)
\* Workflow::process from rule i on: the first rule that decides.
WorkflowProcess(rules, i, part) ==
    IF i > Len(rules) THEN "unreachable"
    ELSE IF RuleProcess(rules[i], part) # <<>> THEN RuleProcess(rules[i], part)[1]
    ELSE WorkflowProcess(rules, i + 1, part)

RECURSIVE Evaluate(_, _, _)
\* The loop of sum_accepted for one part, started at a workflow.
Evaluate(wfs, workflow, part) ==
    LET decision == WorkflowProcess(wfs[workflow], 1, part)
    IN  IF decision \in {"A", "R", "unreachable"} THEN decision
        ELSE Evaluate(wfs, decision, part)

\* Interval of the aoc_std library: both ends belong to it.
Interval(start, end) == [start |-> start, end |-> end]
ContainsValue(i, v) == i.start <= v /\ v <= i.end
Width(i) == i.end - i.start + 1

IntervalSetDefault == [k \in Keys |-> Interval(1, MaxRating)]

\* What one LessThan / GreaterThan rule pushes for a popped interval set.
SplitPushes(interval_set, old_decision, rule_idx, rule) ==
    LET cur == interval_set[rule.key]
        Entry(iv, d, idx) ==
            [iset |-> [interval_set EXCEPT ![rule.key] = iv],
             decision |-> d, rule_idx |-> idx]
    IN  IF rule.kind = "LessThan"
        THEN (IF ContainsValue(cur, rule.value - 1)
              THEN <<Entry(Interval(cur.start, rule.value - 1), rule.decision, 0)>>
              ELSE <<>>)
             \o
             (IF ContainsValue(cur, rule.value)
              THEN <<Entry(Interval(rule.value, cur.end), old_decision, rule_idx + 1)>>
              ELSE <<>>)
        ELSE (IF ContainsValue(cur, rule.value)
              THEN <<Entry(Interval(cur.start, rule.value), old_decision, rule_idx + 1)>>
              ELSE <<>>)
             \o
             (IF ContainsValue(cur, rule.value + 1)
              THEN <<Entry(Interval(rule.value + 1, cur.end), rule.decision, 0)>>
              ELSE <<>>)

IdleDay19 ==
    /\ workflows = <<>>
    /\ d19pc = "idle"
    /\ intervals = <<>>
    /\ accepted = <<>>
    /\ d19result = -1

\* combo_accepted up to its loop: the stack holds the full interval set at
\* rule 0 of workflow `in`.
InitDay19 ==
    /\ workflows \in WorkflowSets
    /\ d19pc = "combo"
    /\ intervals = <<[iset |-> IntervalSetDefault, decision |-> "in", rule_idx |-> 0]>>
    /\ accepted = <<>>
    /\ d19result = -1

\* One iteration of `while let Some(..) = intervals.pop()`.
ComboStep ==
    /\ d19pc = "combo"
    /\ intervals # <<>>
    /\ LET top == intervals[Len(intervals)]
           rest == SubSeq(intervals, 1, Len(intervals) - 1)
           interval_set == top.iset
           old_decision == top.decision
           rule_idx == top.rule_idx
       IN  IF old_decision = "A"
           THEN accepted' = Append(accepted, interval_set) /\ intervals' = rest
           ELSE IF old_decision = "R"
           THEN intervals' = rest /\ UNCHANGED accepted
           ELSE LET workflow == workflows[old_decision] IN
                IF rule_idx >= Len(workflow)
                THEN intervals' = rest /\ UNCHANGED accepted
                ELSE LET rule == workflow[rule_idx + 1] IN
                     CASE rule.kind = "AlwaysAccept" ->
                            accepted' = Append(accepted, interval_set) /\ intervals' = rest
                       [] rule.kind = "Workflow" ->
                            /\ intervals' = Append(rest,
                                   [iset |-> interval_set, decision |-> rule.decision,
                                    rule_idx |-> 0])
                            /\ UNCHANGED accepted
                       [] rule.kind \in {"LessThan", "GreaterThan"} ->
                            /\ intervals' =
                                   rest \o SplitPushes(interval_set, old_decision, rule_idx, rule)
                            /\ UNCHANGED accepted
                       [] rule.kind = "AlwaysReject" ->
                            intervals' = rest /\ UNCHANGED accepted
    /\ UNCHANGED <<workflows, d19pc, d19result>>
    /\ UNCHANGED notDay19

RECURSIVE SumOfVolumes(_, _)
\* accepted.iter().map(product of the four widths).sum() over the first n sets
SumOfVolumes(sets, n) ==
    IF n = 0 THEN 0
    ELSE SumOfVolumes(sets, n - 1)
         + Width(sets[n]["x"]) * Width(sets[n]["m"]) * Width(sets[n]["a"]) * Width(sets[n]["s"])

\* The stack is empty: combo_accepted returns the sum.
ComboReturn ==
    /\ d19pc = "combo"
    /\ intervals = <<>>
    /\ d19result' = SumOfVolumes(accepted, Len(accepted))
    /\ d19pc' = "done"
    /\ UNCHANGED <<workflows, intervals, accepted>>
    /\ UNCHANGED notDay19

NextDay19 ==
    \/ ComboStep
    \/ ComboReturn

(***************************************************************************)
(* Day 14: the parabolic reflector dish, Dish2.  Points are <<row, column>>*)
(* from 0, as Dish2 keeps the row in Point2D.x and the column in .y.       *)
(***************************************************************************)

\* cycle is run with counts 1..MaxCycles, on the grids of SmallSide rows and
\* columns and on two larger ones.
MaxCycles == 8
SmallSide == 2

\* The grid of tests::example.
ExampleDish ==
    [height |-> 10, width |-> 10,
     cubes |->
        {<<0, 5>>, <<1, 4>>, <<1, 9>>, <<2, 5>>, <<2, 6>>, <<3, 3>>,
         <<4, 8>>, <<5, 2>>, <<5, 7>>, <<5, 9>>, <<6, 5>>, <<8, 0>>,
         <<8, 5>>, <<8, 6>>, <<8, 7>>, <<9, 0>>, <<9, 5>>},
     rounds |->
        {<<0, 0>>, <<1, 0>>, <<1, 2>>, <<1, 3>>, <<3, 0>>, <<3, 1>>,
         <<3, 4>>, <<3, 9>>, <<4, 1>>, <<4, 7>>, <<5, 0>>, <<5, 5>>,
         <<6, 2>>, <<6, 6>>, <<6, 9>>, <<7, 7>>, <<9, 1>>, <<9, 2>>}]

\* A grid on which one rock walks west along the bottom row, one step per
\* spin cycle, before it leaves the row:
\*     ..#............
\*     ....#..........
\*     ##....#........
\*     ...#....#......
\*     .....#....#....
\*     .......#....#..
\*     .........#....#
\*     ...........#...
\*     #..#.#.#.#.#.#O
StaircaseDish ==
    [height |-> 9, width |-> 15,
     cubes |->
        {<<0, 2>>, <<1, 4>>, <<2, 0>>, <<2, 1>>, <<2, 6>>, <<3, 3>>,
         <<3, 8>>, <<4, 5>>, <<4, 10>>, <<5, 7>>, <<5, 12>>, <<6, 9>>,
         <<6, 14>>, <<7, 11>>, <<8, 0>>, <<8, 3>>, <<8, 5>>, <<8, 7>>,
         <<8, 9>>, <<8, 11>>, <<8, 13>>},
     rounds |-> {<<8, 14>>}]

\* Every grid of SmallSide x SmallSide cells over `.`, `#` and `O`.
SmallDishes ==
    LET cells == (0..SmallSide - 1) \X (0..SmallSide - 1)
    IN  { [height |-> SmallSide, width |-> SmallSide,
           cubes |-> { p \in cells : g[p] = "#" },
           rounds |-> { p \in cells : g[p] = "O" }] :
            g \in [cells -> {".", "#", "O"}] }

Dishes == SmallDishes \cup {ExampleDish, StaircaseDish}

\* from_str: the intervals between the markers -1, the cubes of the line and
\* the line's length, kept when end - start >= 2.
IntervalsOf(marks) ==
    { Interval(a + 1, b - 1) : <<a, b>> \in
        { <<a, b>> \in marks \X marks :
            /\ b - a >= 2
            /\ ~ \E m \in marks : a < m /\ m < b } }

col_intervals(d, col) ==
    IntervalsOf({-1, d.height} \cup { p[1] : p \in { q \in d.cubes : q[2] = col } })

row_intervals(d, row) ==
    IntervalsOf({-1, d.width} \cup { p[2] : p \in { q \in d.cubes : q[1] = row } })

\* The number of rounds of one line that an interval holds: the length of its
\* bucket.
InColumn(rs, col, iv) == Cardinality({ p \in rs : p[2] = col /\ ContainsValue(iv, p[1]) })
InRow(rs, row, iv) == Cardinality({ p \in rs : p[1] = row /\ ContainsValue(iv, p[2]) })

\* The four tilts: the p-th round of a bucket is written to start + p or
\* end - p.  Which round gets which slot depends on the order of the bucket,
\* the set of slots does not.
tilt_north(d, rs) ==
    UNION { { <<iv.start + p, col>> : p \in 0..InColumn(rs, col, iv) - 1 } :
            <<col, iv>> \in { <<c, i>> \in (0..d.width - 1) \X UNION { col_intervals(d, c) : c \in 0..d.width - 1 } :
                                i \in col_intervals(d, c) } }

tilt_south(d, rs) ==
    UNION { { <<iv.end - p, col>> : p \in 0..InColumn(rs, col, iv) - 1 } :
            <<col, iv>> \in { <<c, i>> \in (0..d.width - 1) \X UNION { col_intervals(d, c) : c \in 0..d.width - 1 } :
                                i \in col_intervals(d, c) } }

tilt_west(d, rs) ==
    UNION { { <<row, iv.start + p>> : p \in 0..InRow(rs, row, iv) - 1 } :
            <<row, iv>> \in { <<r, i>> \in (0..d.height - 1) \X UNION { row_intervals(d, r) : r \in 0..d.height - 1 } :
                                i \in row_intervals(d, r) } }

tilt_east(d, rs) ==
    UNION { { <<row, iv.end - p>> : p \in 0..InRow(rs, row, iv) - 1 } :
            <<row, iv>> \in { <<r, i>> \in (0..d.height - 1) \X UNION { row_intervals(d, r) : r \in 0..d.height - 1 } :
                                i \in row_intervals(d, r) } }

\* One pass of the loop body's four tilts.
SpinCycle(d, rs) == tilt_east(d, tilt_south(d, tilt_west(d, tilt_north(d, rs))))

RECURSIVE SumRows(_, _)
SumRows(height, rs) ==
    IF rs = {} THEN 0
    ELSE LET r == CHOOSE p \in rs : TRUE
         IN  (height - r[1]) + SumRows(height, rs \ {r})

\* self.rounds.iter().map(|r| height - r.x as u32).sum()
total_load(d, rs) == SumRows(d.height, rs)

\* The key folds the last five loads into a u128 by acc << 32 | v: the fifth
\* shift pushes the oldest load out of the 128 bits, so the key is the last
\* four loads.
KeyOf(ls) == SubSeq(ls, Len(ls) - 3, Len(ls))

IdleDay14 ==
    /\ dish = [height |-> 0, width |-> 0, cubes |-> {}]
    /\ rounds = {}
    /\ startRounds = {}
    /\ cycleCount = 0
    /\ cycle_idx = 0
    /\ loads = <<>>
    /\ cache = <<>>
    /\ d14pc = "idle"
    /\ d14result = 0

\* Dish2::from_str and the entry of cycle(count).
InitDay14 ==
    /\ \E d \in Dishes :
        /\ dish = [height |-> d.height, width |-> d.width, cubes |-> d.cubes]
        /\ rounds = d.rounds
        /\ startRounds = d.rounds
    /\ cycleCount \in 1..MaxCycles
    /\ cycle_idx = 0
    /\ loads = <<>>
    /\ cache = <<>>
    /\ d14pc = "cycle"
    /\ d14result = 0

\* One pass of `for cycle_idx in 0..count`: the four tilts, the load, the
\* cache lookup and either the early return or loads.push(load).
CycleStep ==
    /\ d14pc = "cycle"
    /\ cycle_idx < cycleCount
    /\ rounds' = SpinCycle(dish, rounds)
    /\ LET load == total_load(dish, rounds')
           key == KeyOf(loads)
           e == IF key \in DOMAIN cache THEN cache[key] ELSE cycle_idx
           period == cycle_idx - e
           rem == (cycleCount - cycle_idx) % period
       IN  IF cycle_idx > 4
           THEN /\ cache' = [k \in DOMAIN cache \cup {key} |->
                                IF k \in DOMAIN cache THEN cache[k] ELSE cycle_idx]
                /\ IF e # cycle_idx /\ cycleCount % period = cycle_idx % period
                   THEN /\ d14result' = loads[(e + rem - 1) + 1]
                        /\ d14pc' = "done"
                        /\ UNCHANGED <<loads, cycle_idx>>
                   ELSE /\ loads' = Append(loads, load)
                        /\ cycle_idx' = cycle_idx + 1
                        /\ UNCHANGED <<d14result, d14pc>>
           ELSE /\ loads' = Append(loads, load)
                /\ cycle_idx' = cycle_idx + 1
                /\ UNCHANGED <<cache, d14result, d14pc>>
    /\ UNCHANGED <<dish, startRounds, cycleCount>>
    /\ UNCHANGED notDay14

\* self.total_load() after the loop
CycleReturn ==
    /\ d14pc = "cycle"
    /\ cycle_idx = cycleCount
    /\ d14result' = total_load(dish, rounds)
    /\ d14pc' = "done"
    /\ UNCHANGED <<dish, rounds, startRounds, cycleCount, cycle_idx, loads, cache>>
    /\ UNCHANGED notDay14

NextDay14 ==
    \/ CycleStep
    \/ CycleReturn

(***************************************************************************)
(* Day 23: longest_distance on the contracted junction graph.  Node 0 is   *)
(* the start, node 1 the end, the others are the junctions.                *)
(***************************************************************************)

\* The junction graphs of the small mazes have the junctions 2..MaxJunction
\* and corridors of length 1..MaxCorridor.
MaxJunction == 4
MaxCorridor == 2

\* ALongWalk = ALongWalkGen<10>; tests::example uses ALongWalkGen::<5>.
ALongWalkN == 10
ExampleN == 5
SmallN == 3

Max2(a, b) == IF a >= b THEN a ELSE b

RECURSIVE MaxDist(_, _)
\* neighbors.iter().map(|(_, d)| d).max().copied().unwrap_or_default()
MaxDist(neighbors, n) ==
    IF n = 0 THEN 0 ELSE Max2(neighbors[n][2], MaxDist(neighbors, n - 1))

RECURSIVE HopsToEnd(_, _, _, _)
\* dist_to_end: breadth-first from a node, counting edges, until the end is
\* in the front; 15 stands for usize::MAX when the end is never reached.
HopsToEnd(adj, front, seen, d) ==
    IF 1 \in front THEN d
    ELSE IF front = {} THEN 15
    ELSE HopsToEnd(adj,
            { adj[i][k][1] : <<i, k>> \in
                { <<i, k>> \in front \X (1..4) : k <= Len(adj[i]) } } \ (seen \cup front),
            seen \cup front, d + 1)

\* populate_graph_*: neighbors and best; compute_layer_set_and_update_nodes:
\* layer.
Populated(adj) ==
    [i \in DOMAIN adj |->
        [neighbors |-> adj[i],
         best |-> MaxDist(adj[i], Len(adj[i])),
         layer |-> HopsToEnd(adj, {i}, {}, 0)]]

\* compute_layer_set_and_update_nodes: the number of nodes of every layer.
LayerSetOf(g) ==
    [l \in 0..14 |-> Cardinality({ i \in DOMAIN g : g[i].layer = l })]

\* LayerSet::decrement on a u8
Decrement(ls, layer) == [ls EXCEPT ![layer] = (@ - 1) % 256]

\* The junction graph of tests::example with slopes (part one).
ExampleSloped ==
    Populated([i \in 0..8 |->
        CASE i = 0 -> << <<3, 15>> >>
          [] i = 1 -> << >>
          [] i = 2 -> << <<6, 24>>, <<4, 30>> >>
          [] i = 3 -> << <<2, 22>>, <<5, 22>> >>
          [] i = 4 -> << <<8, 10>> >>
          [] i = 5 -> << <<6, 12>>, <<7, 38>> >>
          [] i = 6 -> << <<7, 10>>, <<4, 18>> >>
          [] i = 7 -> << <<8, 10>> >>
          [] i = 8 -> << <<1, 5>> >>])

\* The junction graph of tests::example without slopes (part two).
ExampleUnsloped ==
    Populated([i \in 0..8 |->
        CASE i = 0 -> << <<3, 15>> >>
          [] i = 1 -> << <<8, 5>> >>
          [] i = 2 -> << <<3, 22>>, <<6, 24>>, <<4, 30>> >>
          [] i = 3 -> << <<0, 15>>, <<2, 22>>, <<5, 22>> >>
          [] i = 4 -> << <<8, 10>>, <<6, 18>>, <<2, 30>> >>
          [] i = 5 -> << <<6, 12>>, <<3, 22>>, <<7, 38>> >>
          [] i = 6 -> << <<7, 10>>, <<5, 12>>, <<4, 18>>, <<2, 24>> >>
          [] i = 7 -> << <<6, 10>>, <<8, 10>>, <<5, 38>> >>
          [] i = 8 -> << <<1, 5>>, <<4, 10>>, <<7, 10>> >>])

\* The junction graph of the maze `#.#` / `#.#` / `#.#`: one corridor from the
\* start to the end.
CorridorGraph == Populated([i \in 0..1 |-> << <<1 - i, 2>> >>])

RECURSIVE NeighborList(_, _, _)
\* The neighbors of node i under the corridor lengths w, by rising index.
NeighborList(w, i, j) ==
    IF j > MaxJunction THEN << >>
    ELSE (IF j # i /\ w[{i, j}] > 0 THEN << <<j, w[{i, j}]>> >> ELSE << >>)
         \o NeighborList(w, i, j + 1)

\* The junction graphs of the small mazes without slopes: the start and the
\* end each have one corridor to a junction, and the junctions are joined by
\* corridors; every node can reach the end.
SmallGraphs ==
    LET nodes == 0..MaxJunction
        pairs == { {i, j} : <<i, j>> \in { <<i, j>> \in nodes \X nodes : i < j } }
        weights == { w \in [pairs -> 0..MaxCorridor] :
                        /\ w[{0, 1}] = 0
                        /\ Cardinality({ j \in nodes \ {0} : w[{0, j}] > 0 }) = 1
                        /\ Cardinality({ j \in nodes \ {1} : w[{1, j}] > 0 }) = 1 }
        graphs == { Populated([i \in nodes |-> NeighborList(w, i, 0)]) : w \in weights }
    IN  { g \in graphs : \A i \in nodes : g[i].layer < 15 }

\* A starting point of the searches.
Point(idx, dist, seen, ls, best) ==
    [idx |-> idx, dist |-> dist, seen |-> seen, ls |-> ls, best |-> best]

RECURSIVE SumBest(_, _)
SumBest(g, nodes) ==
    IF nodes = {} THEN 0
    ELSE LET i == CHOOSE x \in nodes : TRUE IN g[i].best + SumBest(g, nodes \ {i})

RECURSIVE longest_recur(_, _, _, _, _, _, _, _)
RECURSIVE VisitNeighbors(_, _, _, _, _, _, _, _, _, _)
\* longest_recur and longest_recur_sloped (the same body): the value of
\* *longest when the call returns.
longest_recur(g, start, cur_cost, end, layer_set, theoretical_remaining, seen, longest) ==
    IF start = end THEN Max2(longest, cur_cost)
    ELSE LET node == g[start]
             remaining == theoretical_remaining - node.best
             next_layer_set == Decrement(layer_set, node.layer)
         IN  IF cur_cost + remaining < longest THEN longest
             ELSE VisitNeighbors(g, start, 1, cur_cost, end, next_layer_set, remaining,
                                 seen \cup {start}, next_layer_set[node.layer] # 0, longest)

\* for (next_idx, dist) in node.neighbors.iter(), from the k-th neighbor on
VisitNeighbors(g, start, k, cur_cost, end, next_layer_set, remaining, next_seen,
               can_move_away_from_end, longest) ==
    IF k > Len(g[start].neighbors) THEN longest
    ELSE LET next_idx == g[start].neighbors[k][1]
             dist == g[start].neighbors[k][2]
             after ==
                IF ~can_move_away_from_end /\ g[next_idx].layer > g[start].layer
                THEN longest
                ELSE IF next_idx \in next_seen THEN longest
                ELSE longest_recur(g, next_idx, cur_cost + dist, end, next_layer_set,
                                   remaining, next_seen, longest)
         IN  VisitNeighbors(g, start, k + 1, cur_cost, end, next_layer_set, remaining,
                            next_seen, can_move_away_from_end, after)

RECURSIVE FlatMap(_, _, _)
\* starting_points.drain(..).flat_map(..): every point replaced by one point
\* per neighbor it has not seen.
FlatMap(g, points, n) ==
    IF n > Len(points) THEN << >>
    ELSE LET p == points[n]
             ls == Decrement(p.ls, g[p.idx].layer)
             best_remaining == IF p.best > 0 THEN p.best - g[p.idx].best ELSE p.best
             nbs == g[p.idx].neighbors
             kept == SelectSeq(nbs, LAMBDA nb : nb[1] \notin p.seen)
         IN  [k \in 1..Len(kept) |->
                Point(kept[k][1], p.dist + kept[k][2], p.seen \cup {kept[k][1]},
                      ls, best_remaining)]
             \o FlatMap(g, points, n + 1)

RECURSIVE MaxOver(_, _, _)
\* .map(longest_recur from the point with longest = 0).max().unwrap_or_default()
MaxOver(g, end, points) ==
    IF points = << >> THEN 0
    ELSE LET p == Head(points)
         IN  Max2(longest_recur(g, p.idx, p.dist, end, p.ls, p.best, p.seen, 0),
                  MaxOver(g, end, Tail(points)))

IdleDay23 ==
    /\ graph = << >>
    /\ N = 0
    /\ sloped = FALSE
    /\ goal = 0
    /\ starting_points = << >>
    /\ depth = 0
    /\ d23pc = "idle"
    /\ d23result = 0

\* longest_distance up to the loop over _depth.
InitDay23 ==
    /\ \E in \in ({ExampleSloped} \X {TRUE} \X {ExampleN, ALongWalkN})
             \cup ({ExampleUnsloped} \X {FALSE} \X {ExampleN, ALongWalkN})
             \cup ({CorridorGraph} \X BOOLEAN \X {ExampleN, ALongWalkN})
             \cup (SmallGraphs \X {FALSE} \X {SmallN, ExampleN}) :
        /\ graph = in[1]
        /\ sloped = in[2]
        /\ N = in[3]
    /\ LET layer_set == Decrement(LayerSetOf(graph), graph[0].layer)
           second == graph[0].neighbors[1][1]
           second_dist == graph[0].neighbors[1][2]
           theoretical_best == SumBest(graph, DOMAIN graph) - graph[1].best
       IN  IF graph[1].neighbors = << >>
           THEN /\ goal = 1
                /\ starting_points =
                     << Point(second, second_dist + 0, {0, second}, layer_set,
                              theoretical_best) >>
           ELSE /\ goal = graph[1].neighbors[1][1]
                /\ starting_points =
                     << Point(second, second_dist + graph[1].neighbors[1][2],
                              {0, 1, second}, layer_set, theoretical_best) >>
    /\ depth = 2
    /\ d23pc = "expand"
    /\ d23result = 0

\* One pass of `for _depth in 2..N`.
ExpandStartingPoints ==
    /\ d23pc = "expand"
    /\ depth < N
    /\ starting_points' = FlatMap(graph, starting_points, 1)
    /\ depth' = depth + 1
    /\ UNCHANGED <<graph, N, sloped, goal, d23pc, d23result>>
    /\ UNCHANGED notDay23

\* starting_points.par_iter().map(..).max().unwrap_or_default()
SearchAll ==
    /\ d23pc = "expand"
    /\ depth >= N
    /\ d23result' = MaxOver(graph, goal, starting_points)
    /\ d23pc' = "done"
    /\ UNCHANGED <<graph, N, sloped, goal, starting_points, depth>>
    /\ UNCHANGED notDay23

NextDay23 ==
    \/ ExpandStartingPoints
    \/ SearchAll

(***************************************************************************)
(* Day 8: the haunted wasteland, part two.  Node names stand for their     *)
(* xxh3_64 keys.                                                           *)
(***************************************************************************)

\* The most steps one ghost takes to its first node ending in Z in the maps
\* ghost_steps_from is run on.
MaxSteps == 6

NodeNames == {"11A", "22A", "11B", "22B", "11Z"}
EndsWithA == {"11A", "22A"}
EndsWithZ == {"11Z"}
InstructionLists == { <<"L">>, <<"L", "R">> }

\* parse_node
Node(name, left, right) ==
    [left |-> left, right |-> right,
     ends_with_a |-> name \in EndsWithA, ends_with_z |-> name \in EndsWithZ]

\* One pass of the loop of get_first_instance, for the walk w = [cur, count,
\* found]: return at a node ending in Z, else follow the instruction.
FirstInstanceStep(insts, map, w) ==
    IF map[w.cur].ends_with_z
    THEN [w EXCEPT !.found = TRUE]
    ELSE LET instruction == insts[(w.count % Len(insts)) + 1]
         IN  [cur |-> IF instruction = "L" THEN map[w.cur].left ELSE map[w.cur].right,
              count |-> w.count + 1,
              found |-> FALSE]

RECURSIVE FirstInstance(_, _, _, _)
\* get_first_instance within `fuel` steps; -1 if no node ending in Z is met.
FirstInstance(insts, map, w, fuel) ==
    IF map[w.cur].ends_with_z THEN w.count
    ELSE IF fuel = 0 THEN -1
    ELSE FirstInstance(insts, map, FirstInstanceStep(insts, map, w), fuel - 1)

\* The nodes whose left and right differ in the parsed maps.
Forks == {"11A"}

\* The parsed maps; the node ending in Z leads to itself.
Mappings ==
    { [n \in NodeNames |-> Node(n, l[n], IF n \in Forks THEN r[n] ELSE l[n])] :
        l \in { f \in [NodeNames -> NodeNames] : f["11Z"] = "11Z" },
        r \in [Forks -> NodeNames] }

IsPrime(p) == p >= 2 /\ \A d \in 2..(p - 1) : p % d # 0

\* factorize64(count).keys(): the primes that divide count
PrimeFactors(n) == { p \in 2..n : IsPrime(p) /\ n % p = 0 }

RECURSIVE ProductOfSet(_)
ProductOfSet(S) ==
    IF S = {} THEN 1
    ELSE LET x == CHOOSE y \in S : TRUE IN x * ProductOfSet(S \ {x})

IdleDay8 ==
    /\ instructions = << >>
    /\ mapping = << >>
    /\ ghosts = << >>
    /\ d8pc = "idle"
    /\ d8result = 0

\* from_str and the entry of ghost_steps_from: one get_first_instance call
\* per node ending in A; every ghost reaches a node ending in Z.
InitDay8 ==
    /\ instructions \in InstructionLists
    /\ mapping \in Mappings
    /\ \A k \in EndsWithA :
            FirstInstance(instructions, mapping, [cur |-> k, count |-> 0, found |-> FALSE],
                          MaxSteps) >= 0
    /\ ghosts = [k \in EndsWithA |-> [cur |-> k, count |-> 0, found |-> FALSE]]
    /\ d8pc = "walk"
    /\ d8result = 0

\* One pass of the loop of one get_first_instance call; the calls run side by
\* side under par_iter.
GhostStep(k) ==
    /\ d8pc = "walk"
    /\ ~ghosts[k].found
    /\ ghosts' = [ghosts EXCEPT ![k] = FirstInstanceStep(instructions, mapping, @)]
    /\ UNCHANGED <<instructions, mapping, d8pc, d8result>>
    /\ UNCHANGED notDay8

\* The factors of all counts are put into one set and multiplied.
MultiplyFactors ==
    /\ d8pc = "walk"
    /\ \A k \in DOMAIN ghosts : ghosts[k].found
    /\ d8result' = ProductOfSet(UNION { PrimeFactors(ghosts[k].count) : k \in DOMAIN ghosts })
    /\ d8pc' = "done"
    /\ UNCHANGED <<instructions, mapping, ghosts>>
    /\ UNCHANGED notDay8

NextDay8 ==
    \/ \E k \in EndsWithA : GhostStep(k)
    \/ MultiplyFactors

(***************************************************************************)
(* Day 15: the lens library.  Labels and steps are sequences of bytes.     *)
(***************************************************************************)

\* from_str is followed for inputs of up to MaxInputSteps steps, with the
\* focal lengths 1..MaxFocal.
MaxInputSteps == 4
MaxFocal == 2

NumBoxes == 256

\* The labels rn, cm (both of box 0) and qp (box 1) of tests::example.
Labels == { <<114, 110>>, <<99, 109>>, <<113, 112>> }

\* Instruction { label, op }: `label-` is Op::Remove, `label=f` Op::Assign(f).
InputSteps ==
    [label : Labels, op : {"Remove"}, focal : {0}]
        \cup [label : Labels, op : {"Assign"}, focal : 1..MaxFocal]

\* The bytes of a step as it stands in the input: `-` is 45, `=` 61, the
\* digit f 48 + f.
RawStep(step) ==
    step.label \o (IF step.op = "Remove" THEN <<45>> ELSE <<61, 48 + step.focal>>)

RECURSIVE HashFold(_, _)
\* bytes.iter().fold(0, |acc, ch| ((acc + *ch) * 17) % 256), over the first n
HashFold(bytes, n) ==
    IF n = 0 THEN 0 ELSE ((HashFold(bytes, n - 1) + bytes[n]) * 17) % 256

HASH(bytes) == HashFold(bytes, Len(bytes))

\* find_position(|v| v.label == label): the index from 1, or 0
FindPosition(values, label) ==
    IF \E i \in 1..Len(values) : values[i].label = label
    THEN CHOOSE i \in 1..Len(values) :
            /\ values[i].label = label
            /\ \A j \in 1..(i - 1) : values[j].label # label
    ELSE 0

\* ListBucket::insert with the found lens taken out and the new one pushed
\* to the back.
ListBucketInsertAtBack(values, entry) ==
    Append(SelectSeq(values, LAMBDA v : v.label # entry.label), entry)

\* ListBucket::insert
ListBucketInsert(values, entry) ==
    LET idx == FindPosition(values, entry.label)
    IN  IF idx # 0 THEN [values EXCEPT ![idx] = entry] ELSE Append(values, entry)

\* ListBucket::remove
ListBucketRemove(values, label) ==
    LET idx == FindPosition(values, label)
    IN  IF idx # 0
        THEN SubSeq(values, 1, idx - 1) \o SubSeq(values, idx + 1, Len(values))
        ELSE values

RECURSIVE FocalSum(_, _)
\* ListBucket::focal_sum over the first n lenses
FocalSum(values, n) ==
    IF n = 0 THEN 0 ELSE FocalSum(values, n - 1) + n * values[n].focal

RECURSIVE FocusingPower(_, _, _)
\* HASHMap::focusing_power over the boxes lo..hi, summed by halves
FocusingPower(bs, lo, hi) ==
    IF lo > hi THEN 0
    ELSE IF lo = hi THEN (lo + 1) * FocalSum(bs[lo], Len(bs[lo]))
    ELSE LET mid == (lo + hi) \div 2
         IN  FocusingPower(bs, lo, mid) + FocusingPower(bs, mid + 1, hi)

IdleDay15 ==
    /\ processed = << >>
    /\ buckets = << >>
    /\ lens_p1 = 0
    /\ d15pc = "idle"
    /\ lens_p2 = 0

\* from_str before the first step: HASHMap::default() and p1 = 0
InitDay15 ==
    /\ processed = << >>
    /\ buckets = [b \in 0..NumBoxes - 1 |-> << >>]
    /\ lens_p1 = 0
    /\ d15pc = "steps"
    /\ lens_p2 = 0

\* One pass of `for step in s.trim().split(',')`
ProcessStep ==
    /\ d15pc = "steps"
    /\ Len(processed) < MaxInputSteps
    /\ \E step \in InputSteps :
        LET bucket == HASH(step.label) IN
        /\ lens_p1' = lens_p1 + HASH(RawStep(step))
        /\ buckets' =
             [buckets EXCEPT ![bucket] =
                IF step.op = "Remove"
                THEN ListBucketRemove(@, step.label)
                ELSE ListBucketInsert(@, [label |-> step.label, focal |-> step.focal])]
        /\ processed' = Append(processed, step)
    /\ UNCHANGED <<d15pc, lens_p2>>
    /\ UNCHANGED notDay15

\* Ok(Self { p1, p2: hm.focusing_power() }) after the last step
FinishSteps ==
    /\ d15pc = "steps"
    /\ processed # << >>
    /\ lens_p2' = FocusingPower(buckets, 0, NumBoxes - 1)
    /\ d15pc' = "done"
    /\ UNCHANGED <<processed, buckets, lens_p1>>
    /\ UNCHANGED notDay15

NextDay15 ==
    \/ ProcessStep
    \/ FinishSteps

(***************************************************************************)
(* Day 16: the floor will be lava.  Rows and columns count from 0 as in    *)
(* the Grid.                                                               *)
(***************************************************************************)

\* propagate_all is followed on every LavaSide x LavaSide grid, on the grid
\* of tests::example and on one empty row of WideWidth tiles.
LavaSide == 2
WideWidth == 129

\* The bits of one row of an EnergizedSet, a u128.
RowBits == 128

Tiles == {"Empty", "MirrorF", "MirrorB", "HorizSplit", "VertSplit"}

Cardinals == {"North", "South", "East", "West"}

\* parse_tile
ParseTile(ch) ==
    CASE ch = "." -> "Empty"
      [] ch = "/" -> "MirrorF"
      [] ch = "b" -> "MirrorB"
      [] ch = "|" -> "VertSplit"
      [] ch = "-" -> "HorizSplit"

\* Grid::new(tiles) of rows given as sequences of characters (`b` stands for
\* the backslash).
GridOf(rows) ==
    [height |-> Len(rows), width |-> Len(rows[1]),
     tiles |-> [r \in 0..Len(rows) - 1 |->
                   [c \in 0..Len(rows[1]) - 1 |-> ParseTile(rows[r + 1][c + 1])]]]

\* The grid of tests::example.
ExampleLava ==
    GridOf(<< <<".", "|", ".", ".", ".", "b", ".", ".", ".", ".">>,
              <<"|", ".", "-", ".", "b", ".", ".", ".", ".", ".">>,
              <<".", ".", ".", ".", ".", "|", "-", ".", ".", ".">>,
              <<".", ".", ".", ".", ".", ".", ".", ".", "|", ".">>,
              <<".", ".", ".", ".", ".", ".", ".", ".", ".", ".">>,
              <<".", ".", ".", ".", ".", ".", ".", ".", ".", "b">>,
              <<".", ".", ".", ".", "/", ".", "b", "b", ".", ".">>,
              <<".", "-", ".", "-", "/", ".", ".", "|", ".", ".">>,
              <<".", "|", ".", ".", ".", ".", "-", "|", ".", "b">>,
              <<".", ".", "/", "/", ".", "|", ".", ".", ".", ".">> >>)

WideLava ==
    [height |-> 1, width |-> WideWidth,
     tiles |-> [r \in {0} |-> [c \in 0..WideWidth - 1 |-> "Empty"]]]

SmallLavas ==
    { [height |-> LavaSide, width |-> LavaSide, tiles |-> t] :
        t \in [0..LavaSide - 1 -> [0..LavaSide - 1 -> Tiles]] }

LavaGrids == SmallLavas \cup {ExampleLava, WideLava}

\* Grid::cardinal_neighbor: the location one step away, when it is on the grid.
StepFrom(location, facing) ==
    CASE facing = "North" -> [row |-> location.row - 1, col |-> location.col]
      [] facing = "South" -> [row |-> location.row + 1, col |-> location.col]
      [] facing = "East" -> [row |-> location.row, col |-> location.col + 1]
      [] facing = "West" -> [row |-> location.row, col |-> location.col - 1]

OnGrid(lava, location) ==
    /\ location.row \in 0..lava.height - 1
    /\ location.col \in 0..lava.width - 1

\* 1 << location.col in a u128: without overflow checks the shift count is
\* taken modulo the width of the type.
BitOf(location) == <<location.row, location.col % RowBits>>

\* EnergizedSet::add, ::contains and ::count
EnergizedAdd(set, location) == set \cup {BitOf(location)}

EnergizedContains(set, location) == BitOf(location) \in set

EnergizedCount(set) == Cardinality(set)

OppositeOf(facing) ==
    CASE facing = "North" -> "South"
      [] facing = "South" -> "North"
      [] facing = "East" -> "West"
      [] facing = "West" -> "East"

\* VisistedMap::new, ::add, ::contains and ::contains_opposite
VisistedNew == [facing \in Cardinals |-> {}]

VisistedAdd(map, particle) ==
    [map EXCEPT ![particle.facing] = EnergizedAdd(@, particle.location)]

VisistedContains(map, particle) ==
    EnergizedContains(map[particle.facing], particle.location)

VisistedContainsOpposite(map, particle) ==
    EnergizedContains(map[OppositeOf(particle.facing)], particle.location)

\* The facing the beam leaves a tile with (the match in propagate).
Deflect(tile, facing) ==
    CASE tile = "Empty" -> facing
      [] tile = "MirrorF" ->
            (CASE facing = "North" -> "East"
               [] facing = "South" -> "West"
               [] facing = "East" -> "North"
               [] facing = "West" -> "South")
      [] tile = "MirrorB" ->
            (CASE facing = "North" -> "West"
               [] facing = "South" -> "East"
               [] facing = "East" -> "South"
               [] facing = "West" -> "North")
      [] tile = "HorizSplit" ->
            IF facing \in {"North", "South"} THEN "West" ELSE facing
      [] tile = "VertSplit" ->
            IF facing \in {"East", "West"} THEN "South" ELSE facing

\* Whether the tile splits the beam, and the facing of the `other` beam.
Splits(tile, facing) ==
    \/ tile = "HorizSplit" /\ facing \in {"North", "South"}
    \/ tile = "VertSplit" /\ facing \in {"East", "West"}

OtherFacing(tile) == IF tile = "HorizSplit" THEN "East" ELSE "North"

\* The beams one iteration of the loop pushes: `other` first, then the beam.
Pushed(lava, particle) ==
    LET tile == lava.tiles[particle.location.row][particle.location.col]
        otherTo == StepFrom(particle.location, OtherFacing(tile))
        turned == Deflect(tile, particle.facing)
        beamTo == StepFrom(particle.location, turned)
    IN  (IF Splits(tile, particle.facing) /\ OnGrid(lava, otherTo)
         THEN << [location |-> otherTo, facing |-> OtherFacing(tile)] >>
         ELSE << >>)
        \o (IF OnGrid(lava, beamTo)
            THEN << [location |-> beamTo, facing |-> turned] >>
            ELSE << >>)

\* The drop test of the loop, with the pruning on empty tiles.
Dropped(lava, map, particle) ==
    \/ VisistedContains(map, particle)
    \/ /\ lava.tiles[particle.location.row][particle.location.col] = "Empty"
       /\ VisistedContainsOpposite(map, particle)

\* for row in 0..height: the East and the West particle of each row
RowParticles(lava) ==
    [i \in 1..2 * lava.height |->
        IF i % 2 = 1
        THEN [location |-> [row |-> (i - 1) \div 2, col |-> 0], facing |-> "East"]
        ELSE [location |-> [row |-> (i - 1) \div 2, col |-> lava.width - 1],
              facing |-> "West"]]

\* for col in 0..width: the South and the North particle of each column
ColParticles(lava) ==
    [i \in 1..2 * lava.width |->
        IF i % 2 = 1
        THEN [location |-> [row |-> 0, col |-> (i - 1) \div 2], facing |-> "South"]
        ELSE [location |-> [row |-> lava.height - 1, col |-> (i - 1) \div 2],
              facing |-> "North"]]

StartingParticles(lava) == RowParticles(lava) \o ColParticles(lava)

\* .max().unwrap_or_default() over the counts of the propagations
MaxEnergized(done) ==
    LET counts == { EnergizedCount(done[i].energized) : i \in 1..Len(done) }
    IN  IF counts = {} THEN 0
        ELSE CHOOSE most \in counts : \A other \in counts : other <= most

IdleDay16 ==
    /\ lava_grid = [height |-> 0, width |-> 0, tiles |-> << >>]
    /\ overflow_checks = FALSE
    /\ starting_particles = << >>
    /\ beams = << >>
    /\ visited = VisistedNew
    /\ energized = {}
    /\ propagated = << >>
    /\ d16pc = "idle"
    /\ d16result = 0

\* propagate_all has built its starting particles and called propagate on
\* the first.
InitDay16 ==
    /\ lava_grid \in LavaGrids
    /\ overflow_checks \in BOOLEAN
    /\ starting_particles = StartingParticles(lava_grid)
    /\ beams = << Head(starting_particles) >>
    /\ visited = VisistedNew
    /\ energized = {}
    /\ propagated = << >>
    /\ d16pc = "run"
    /\ d16result = 0

\* One iteration of `while let Some(mut beam) = beams.pop()`.
BeamStep ==
    /\ d16pc = "run"
    /\ beams # << >>
    /\ LET beam == beams[Len(beams)]
           rest == SubSeq(beams, 1, Len(beams) - 1)
       IN  IF overflow_checks /\ beam.location.col >= RowBits
           THEN /\ d16pc' = "panicked"
                /\ UNCHANGED <<beams, visited, energized>>
           ELSE /\ d16pc' = d16pc
                /\ IF Dropped(lava_grid, visited, beam)
                   THEN /\ beams' = rest
                        /\ UNCHANGED <<visited, energized>>
                   ELSE /\ visited' = VisistedAdd(visited, beam)
                        /\ energized' = EnergizedAdd(energized, beam.location)
                        /\ beams' = rest \o Pushed(lava_grid, beam)
    /\ UNCHANGED <<lava_grid, overflow_checks, starting_particles, propagated, d16result>>
    /\ UNCHANGED notDay16

\* propagate returns `energized`; propagate_all goes on with the next
\* starting particle.
PropagateReturn ==
    /\ d16pc = "run"
    /\ beams = << >>
    /\ propagated' = Append(propagated,
                            [start |-> Head(starting_particles), energized |-> energized])
    /\ starting_particles' = Tail(starting_particles)
    /\ visited' = VisistedNew
    /\ energized' = {}
    /\ IF starting_particles' = << >>
       THEN beams' = << >> /\ d16pc' = "max"
       ELSE beams' = << Head(starting_particles') >> /\ d16pc' = d16pc
    /\ UNCHANGED <<lava_grid, overflow_checks, d16result>>
    /\ UNCHANGED notDay16

\* .map(|p| self.propagate(p).count()).max().unwrap_or_default()
PropagateAllReturn ==
    /\ d16pc = "max"
    /\ d16result' = MaxEnergized(propagated)
    /\ d16pc' = "done"
    /\ UNCHANGED <<lava_grid, overflow_checks, starting_particles, beams, visited,
                   energized, propagated>>
    /\ UNCHANGED notDay16

NextDay16 == BeamStep \/ PropagateReturn \/ PropagateAllReturn

(***************************************************************************)
(* Day 5: seeds and range maps.                                            *)
(***************************************************************************)

\* The lengths of the seed ranges and of the map entries run from 0 to
\* MaxSeedLen and MaxEntryLen.
MaxSeedLen == 4
MaxEntryLen == 2

NumMaps == 7

NumRange(start, end) == [start |-> start, end |-> end]

\* parse_range_map_entry of the line `destination source length`
RangeMapEntry(destination_start, source_start, length) ==
    [destination |-> NumRange(destination_start, destination_start + length - 1),
     source |-> NumRange(source_start, source_start + length - 1)]

\* NumRange::contains
RangeContains(range, input) == input >= range.start /\ input <= range.end

\* RangeMapEntry::translate, with its Some / None as a set
EntryTranslate(entry, input) ==
    IF RangeContains(entry.source, input)
    THEN {entry.destination.start + input - entry.source.start}
    ELSE {}

RECURSIVE TranslateFrom(_, _, _)
\* RangeMap::translate: the first entry, from the i-th on, that translates
TranslateFrom(entries, i, input) ==
    IF i > Len(entries) THEN input
    ELSE IF EntryTranslate(entries[i], input) # {}
         THEN CHOOSE v \in EntryTranslate(entries[i], input) : TRUE
         ELSE TranslateFrom(entries, i + 1, input)

RangeMapTranslate(entries, input) == TranslateFrom(entries, 1, input)

\* RangeMapEntry::contains, ::right_of_overlapping, ::left_of_overlapping and
\* ::is_contained_by
EntryContains(entry, other) ==
    entry.source.start <= other.start /\ other.end <= entry.source.end

RightOfOverlapping(entry, other) ==
    /\ other.start < entry.source.start
    /\ entry.source.start <= other.end
    /\ other.end <= entry.source.end

LeftOfOverlapping(entry, other) ==
    /\ entry.source.start <= other.start
    /\ other.start <= entry.source.end
    /\ entry.source.end < other.end

IsContainedBy(entry, other) ==
    other.start < entry.source.start /\ entry.source.end < other.end

\* What one entry makes of a range: the ranges pushed on next_ranges and on
\* ranges, when one of the four tests holds.
SplitBy(entry, range) ==
    LET offsetStart == range.start + entry.destination.start - entry.source.start
        offsetEnd == range.end + entry.destination.start - entry.source.start
    IN  CASE EntryContains(entry, range) ->
                [hit |-> TRUE,
                 next |-> << NumRange(offsetStart, offsetEnd) >>,
                 again |-> << >>]
          [] RightOfOverlapping(entry, range) ->
                [hit |-> TRUE,
                 next |-> << NumRange(range.start, entry.source.start - 1),
                             NumRange(entry.destination.start, offsetEnd) >>,
                 again |-> << >>]
          [] LeftOfOverlapping(entry, range) ->
                [hit |-> TRUE,
                 next |-> << NumRange(offsetStart,
                                      entry.source.end + entry.destination.start
                                          - entry.source.start) >>,
                 again |-> << NumRange(entry.source.end + 1, range.end) >>]
          [] IsContainedBy(entry, range) ->
                [hit |-> TRUE,
                 next |-> << NumRange(range.start, entry.source.start - 1),
                             NumRange(entry.destination.start, entry.destination.end) >>,
                 again |-> << NumRange(entry.source.end + 1, range.end) >>]
          [] OTHER -> [hit |-> FALSE, next |-> << >>, again |-> << >>]

RECURSIVE SplitFrom(_, _, _)
\* for entry in map.entries.iter(): the first entry, from the i-th on, that
\* one of the tests holds for; the range itself when there is none.
SplitFrom(entries, i, range) ==
    IF i > Len(entries) THEN [hit |-> FALSE, next |-> << range >>, again |-> << >>]
    ELSE IF SplitBy(entries[i], range).hit THEN SplitBy(entries[i], range)
         ELSE SplitFrom(entries, i + 1, range)

\* .tuples().map(|(start, len)| NumRange { start, end: start + len - 1 })
SeedRanges(numbers) ==
    [i \in 1..Len(numbers) \div 2 |->
        NumRange(numbers[2 * i - 1], numbers[2 * i - 1] + numbers[2 * i] - 1)]

\* ranges.iter().map(|c| c.start).min().unwrap_or_default()
MinStart(rs) ==
    LET starts == { rs[i].start : i \in 1..Len(rs) }
    IN  IF starts = {} THEN 0
        ELSE CHOOSE least \in starts : \A other \in starts : least <= other

\* The input of tests::example.
ExampleSeeds == <<79, 14, 55, 13>>

ExampleMaps ==
    << << RangeMapEntry(52, 50, 48), RangeMapEntry(50, 98, 2) >>,
       << RangeMapEntry(39, 0, 15), RangeMapEntry(0, 15, 37), RangeMapEntry(37, 52, 2) >>,
       << RangeMapEntry(42, 0, 7), RangeMapEntry(57, 7, 4), RangeMapEntry(0, 11, 42),
          RangeMapEntry(49, 53, 8) >>,
       << RangeMapEntry(88, 18, 7), RangeMapEntry(18, 25, 70) >>,
       << RangeMapEntry(81, 45, 19), RangeMapEntry(68, 64, 13), RangeMapEntry(45, 77, 23) >>,
       << RangeMapEntry(1, 0, 69), RangeMapEntry(0, 69, 1) >>,
       << RangeMapEntry(60, 56, 37), RangeMapEntry(56, 93, 4) >> >>

\* The seed lists: one (start, length) pair, or two.
SeedLists ==
    { <<start, len>> : start \in {1, 3}, len \in 0..MaxSeedLen }
        \cup { <<1, first, 4, second>> : first \in {0, 2}, second \in {1, 3} }

\* The maps of one entry and of two, sorted by source.start as
\* parse_range_map_entries leaves them, their source ranges disjoint.
VariedMaps ==
    { << RangeMapEntry(dest, src, len) >> :
        dest \in {1, 6}, src \in {2, 4}, len \in 0..MaxEntryLen }
        \cup { << RangeMapEntry(5, 2, len), RangeMapEntry(dest, 4, 2) >> :
                    len \in 0..MaxEntryLen, dest \in {1, 7} }

\* The map the other stages use: 1..3 go to 2..4.
ShiftMap == << RangeMapEntry(2, 1, 3) >>

LastMaps == { ShiftMap, << RangeMapEntry(3, 1, 2), RangeMapEntry(1, 5, 4) >> }

RangeMapLists ==
    { << soil, fertilizer, ShiftMap, ShiftMap, ShiftMap, ShiftMap, location >> :
        soil \in VariedMaps, fertilizer \in VariedMaps, location \in LastMaps }

IdleDay5 ==
    /\ seeds = << >>
    /\ range_maps = << >>
    /\ map_idx = 0
    /\ ranges = << >>
    /\ next_ranges = << >>
    /\ d5pc = "idle"
    /\ d5result = 0

\* lowest_location_number_range has collected the seed ranges and enters the
\* loop over the maps.
InitDay5 ==
    /\ \/ seeds \in SeedLists /\ range_maps \in RangeMapLists
       \/ seeds = ExampleSeeds /\ range_maps = ExampleMaps
    /\ map_idx = 0
    /\ ranges = SeedRanges(seeds)
    /\ next_ranges = << >>
    /\ d5pc = "split"
    /\ d5result = 0

\* One iteration of `'splitter: while let Some(range) = ranges.pop()`.
SplitRange ==
    /\ d5pc = "split"
    /\ map_idx < Len(range_maps)
    /\ ranges # << >>
    /\ LET range == ranges[Len(ranges)]
           split == SplitFrom(range_maps[map_idx + 1], 1, range)
       IN  /\ next_ranges' = next_ranges \o split.next
           /\ ranges' = SubSeq(ranges, 1, Len(ranges) - 1) \o split.again
    /\ UNCHANGED <<seeds, range_maps, map_idx, d5pc, d5result>>
    /\ UNCHANGED notDay5

\* `ranges = next_ranges`, and the next map starts with an empty next_ranges.
NextMap ==
    /\ d5pc = "split"
    /\ map_idx < Len(range_maps)
    /\ ranges = << >>
    /\ ranges' = next_ranges
    /\ next_ranges' = << >>
    /\ map_idx' = map_idx + 1
    /\ UNCHANGED <<seeds, range_maps, d5pc, d5result>>
    /\ UNCHANGED notDay5

\* ranges.iter().map(|c| c.start).min().unwrap_or_default()
LowestReturn ==
    /\ d5pc = "split"
    /\ map_idx = Len(range_maps)
    /\ d5result' = MinStart(ranges)
    /\ d5pc' = "done"
    /\ UNCHANGED <<seeds, range_maps, map_idx, ranges, next_ranges>>
    /\ UNCHANGED notDay5

NextDay5 == SplitRange \/ NextMap \/ LowestReturn

(***************************************************************************)
(* Day 10: the pipe maze.  Locations are [row, col] counted from 0.        *)
(***************************************************************************)

\* The walk along the loop is followed for at most MaxWalk steps.
MaxWalk == 64

\* impl From<char> for Tile
PipeTile(ch) ==
    CASE ch = "|" -> "Vertical"
      [] ch = "-" -> "Horizontal"
      [] ch = "L" -> "NE90"
      [] ch = "J" -> "NW90"
      [] ch = "7" -> "SW90"
      [] ch = "F" -> "SE90"
      [] ch = "." -> "Ground"
      [] ch = "S" -> "Start"

\* Grid::new(tiles) of the lines of the input
MazeOf(rows) ==
    [height |-> Len(rows), width |-> Len(rows[1]),
     tiles |-> [r \in 0..Len(rows) - 1 |->
                   [c \in 0..Len(rows[1]) - 1 |-> PipeTile(rows[r + 1][c + 1])]]]

\* The maze of tests::part_one_example, with the pipe F under its S.
PartOneSketch ==
    MazeOf(<< <<".", ".", "F", "7", ".">>,
              <<".", "F", "J", "|", ".">>,
              <<"F", "J", ".", "L", "7">>,
              <<"|", "F", "-", "-", "J">>,
              <<"L", "J", ".", ".", ".">> >>)

\* The maze of tests::part_two_example_one, with the pipe F under its S.
PartTwoSketch ==
    MazeOf(<< <<".", ".", ".", ".", ".", ".", ".", ".", ".", ".", ".">>,
              <<".", "F", "-", "-", "-", "-", "-", "-", "-", "7", ".">>,
              <<".", "|", "F", "-", "-", "-", "-", "-", "7", "|", ".">>,
              <<".", "|", "|", ".", ".", ".", ".", ".", "|", "|", ".">>,
              <<".", "|", "|", ".", ".", ".", ".", ".", "|", "|", ".">>,
              <<".", "|", "L", "-", "7", ".", "F", "-", "J", "|", ".">>,
              <<".", "|", ".", ".", "|", ".", "|", ".", ".", "|", ".">>,
              <<".", "L", "-", "-", "J", ".", "L", "-", "-", "J", ".">>,
              <<".", ".", ".", ".", ".", ".", ".", ".", ".", ".", ".">> >>)

\* What stands beside and inside the loops of the small mazes.
LooseTiles == {".", "|", "-"}

\* The loop of four pipes in the upper left corner of a 3 x 3 maze, any
\* loose tiles around, and the same in the lower right corner.
CornerSketches ==
    { MazeOf(<< <<"F", "7", a>>, <<"L", "J", b>>, <<c, d, e>> >>) :
        a \in LooseTiles, b \in LooseTiles, c \in LooseTiles, d \in LooseTiles,
        e \in LooseTiles }

LowerCornerSketches ==
    { MazeOf(<< <<a, b, c>>, <<d, "F", "7">>, <<e, "L", "J">> >>) :
        a \in LooseTiles, b \in LooseTiles, c \in LooseTiles, d \in LooseTiles,
        e \in LooseTiles }

\* The ring of twelve pipes around four loose tiles.
RingSketches ==
    { MazeOf(<< <<"F", "-", "-", "7">>, <<"|", a, b, "|">>,
                <<"|", c, d, "|">>, <<"L", "-", "-", "J">> >>) :
        a \in LooseTiles, b \in LooseTiles, c \in LooseTiles, d \in LooseTiles }

\* A cell and a loop cell of each sketch to tell its loop by.
Sketches ==
    { [pipes |-> m, anchor |-> [row |-> 0, col |-> 0]] :
        m \in CornerSketches \cup RingSketches }
        \cup { [pipes |-> PartOneSketch, anchor |-> [row |-> 2, col |-> 0]],
               [pipes |-> PartTwoSketch, anchor |-> [row |-> 1, col |-> 1]] }
        \cup { [pipes |-> m, anchor |-> [row |-> 1, col |-> 1]] :
                    m \in LowerCornerSketches }

\* The directions a pipe joins.
Joins(tile) ==
    CASE tile = "Vertical" -> {"North", "South"}
      [] tile = "Horizontal" -> {"East", "West"}
      [] tile = "NE90" -> {"North", "East"}
      [] tile = "NW90" -> {"North", "West"}
      [] tile = "SW90" -> {"South", "West"}
      [] tile = "SE90" -> {"South", "East"}
      [] OTHER -> {}

TileAt(m, location) == m.tiles[location.row][location.col]

RECURSIVE LoopFrom(_, _)
\* The cells of the loop through the cells of a set: those reached along
\* pipes that join each other.
LoopFrom(m, cells) ==
    LET more == cells \cup
                UNION { { StepFrom(cell, facing) : facing \in Joins(TileAt(m, cell)) } :
                            cell \in cells }
    IN  IF more = cells THEN cells ELSE LoopFrom(m, more)

\* Grid::set
MazeSet(m, location, tile) ==
    [m EXCEPT !.tiles[location.row][location.col] = tile]

\* Actor::new
ActorNew(location, facing, cur_tile) ==
    [location |-> location, facing |-> facing, cur_tile |-> cur_tile,
     num_left |-> 0, num_right |-> 0]

\* The match of process_loop on a neighbor of the start: the facing of the
\* actor put on it, "None" when the neighbor does not join the start.
FacingOnto(dir, tile) ==
    CASE dir \in {"North", "South"} /\ tile = "Vertical" -> dir
      [] dir = "North" /\ tile = "SW90" -> "West"
      [] dir = "North" /\ tile = "SE90" -> "East"
      [] dir = "South" /\ tile = "NW90" -> "West"
      [] dir = "South" /\ tile = "NE90" -> "East"
      [] dir \in {"East", "West"} /\ tile = "Horizontal" -> dir
      [] dir = "East" /\ tile = "SW90" -> "South"
      [] dir = "East" /\ tile = "NW90" -> "North"
      [] dir = "West" /\ tile = "SE90" -> "South"
      [] dir = "West" /\ tile = "NE90" -> "North"
      [] OTHER -> "None"

\* The actors find_map can return: cardinal_neighbors yields the neighbors of
\* the start in an order fixed outside this repository, and each neighbor
\* that joins the start is the first of them in some order.
FoundActors(m, location) ==
    { ActorNew(StepFrom(location, dir),
               FacingOnto(dir, TileAt(m, StepFrom(location, dir))),
               TileAt(m, StepFrom(location, dir))) :
        dir \in { d \in Cardinals :
                    /\ OnGrid(m, StepFrom(location, d))
                    /\ FacingOnto(d, TileAt(m, StepFrom(location, d))) # "None" } }

\* The turn of Actor::advance on a tile: the new facing and which count grows.
TurnOn(tile, facing) ==
    CASE tile = "SW90" /\ facing = "North" -> [facing |-> "West", left |-> 1, right |-> 0]
      [] tile = "SW90" /\ facing = "East" -> [facing |-> "South", left |-> 0, right |-> 1]
      [] tile = "SE90" /\ facing = "North" -> [facing |-> "East", left |-> 0, right |-> 1]
      [] tile = "SE90" /\ facing = "West" -> [facing |-> "South", left |-> 1, right |-> 0]
      [] tile = "NE90" /\ facing = "South" -> [facing |-> "East", left |-> 1, right |-> 0]
      [] tile = "NE90" /\ facing = "West" -> [facing |-> "North", left |-> 0, right |-> 1]
      [] tile = "NW90" /\ facing = "South" -> [facing |-> "West", left |-> 0, right |-> 1]
      [] tile = "NW90" /\ facing = "East" -> [facing |-> "North", left |-> 1, right |-> 0]
      [] OTHER -> [facing |-> facing, left |-> 0, right |-> 0]

\* Actor::advance
Advance(actor, m) ==
    LET next_loc == StepFrom(actor.location, actor.facing)
    IN  IF ~OnGrid(m, next_loc) THEN actor
        ELSE LET turn == TurnOn(TileAt(m, next_loc), actor.facing)
             IN  [location |-> next_loc,
                  facing |-> turn.facing,
                  cur_tile |-> TileAt(m, next_loc),
                  num_left |-> actor.num_left + turn.left,
                  num_right |-> actor.num_right + turn.right]

\* Cardinal::right and Cardinal::left
RightOf(facing) ==
    CASE facing = "North" -> "East"
      [] facing = "East" -> "South"
      [] facing = "South" -> "West"
      [] facing = "West" -> "North"

LeftOf(facing) ==
    CASE facing = "North" -> "West"
      [] facing = "West" -> "South"
      [] facing = "South" -> "East"
      [] facing = "East" -> "North"

\* The neighbor of a location in a direction, pushed when it is on the maze
\* and not Processed.
Unprocessed(m, location, dir) ==
    IF OnGrid(m, StepFrom(location, dir))
            /\ TileAt(m, StepFrom(location, dir)) # "Processed"
    THEN << StepFrom(location, dir) >>
    ELSE << >>

\* Actor::right_locs
RightLocs(actor, m) ==
    LET at == <<actor.facing, actor.cur_tile>>
        beside == Unprocessed(m, actor.location, RightOf(actor.facing))
    IN  CASE at = <<"North", "NW90">> -> Unprocessed(m, actor.location, "South") \o beside
          [] at = <<"South", "SE90">> -> Unprocessed(m, actor.location, "North") \o beside
          [] at = <<"East", "NE90">> -> Unprocessed(m, actor.location, "West") \o beside
          [] at = <<"West", "SW90">> -> Unprocessed(m, actor.location, "East") \o beside
          [] at \in {<<"North", "NE90">>, <<"East", "SE90">>, <<"West", "NW90">>,
                     <<"South", "SW90">>} -> << >>
          [] OTHER -> beside

\* Actor::left_locs
LeftLocs(actor, m) ==
    LET at == <<actor.facing, actor.cur_tile>>
        beside == Unprocessed(m, actor.location, LeftOf(actor.facing))
    IN  CASE at = <<"North", "NE90">> -> Unprocessed(m, actor.location, "South") \o beside
          [] at = <<"South", "SW90">> -> Unprocessed(m, actor.location, "North") \o beside
          [] at = <<"East", "SE90">> -> Unprocessed(m, actor.location, "West") \o beside
          [] at = <<"West", "NW90">> -> Unprocessed(m, actor.location, "East") \o beside
          [] at \in {<<"North", "NW90">>, <<"East", "NE90">>, <<"West", "SW90">>,
                     <<"South", "SE90">>} -> << >>
          [] OTHER -> beside

RECURSIVE FloodDrain(_, _, _)
\* for loc in cur.drain(..): the maze, the count and `next` after the
\* locations from the i-th on.  The neighbors are taken North, East, South,
\* West: flood skips what is Processed, whatever the order.
FloodDrain(state, cur, i) ==
    IF i > Len(cur) THEN state
    ELSE IF TileAt(state.maze, cur[i]) = "Processed"
         THEN FloodDrain(state, cur, i + 1)
         ELSE LET marked == MazeSet(state.maze, cur[i], "Processed")
              IN  FloodDrain([maze |-> marked,
                              inside |-> state.inside + 1,
                              next |-> state.next
                                        \o Unprocessed(marked, cur[i], "North")
                                        \o Unprocessed(marked, cur[i], "East")
                                        \o Unprocessed(marked, cur[i], "South")
                                        \o Unprocessed(marked, cur[i], "West")],
                             cur, i + 1)

IdleDay10 ==
    /\ sketch = [height |-> 0, width |-> 0, tiles |-> << >>]
    /\ pipe_maze = [height |-> 0, width |-> 0, tiles |-> << >>]
    /\ maze_start = [row |-> 0, col |-> 0]
    /\ actor_one = ActorNew([row |-> 0, col |-> 0], "North", "Ground")
    /\ actor_snapshots = << >>
    /\ snapshot_idx = 0
    /\ loop_steps = 0
    /\ num_inside = 0
    /\ cur_locations = << >>
    /\ d10pc = "idle"

\* from_str has parsed a maze whose S stands on a cell of the loop, and calls
\* process_loop.
InitDay10 ==
    /\ \E drawn \in Sketches :
        /\ sketch = drawn.pipes
        /\ maze_start \in LoopFrom(drawn.pipes, {drawn.anchor})
    /\ pipe_maze = MazeSet(sketch, maze_start, "Start")
    /\ actor_one = ActorNew([row |-> 0, col |-> 0], "North", "Ground")
    /\ actor_snapshots = << >>
    /\ snapshot_idx = 0
    /\ loop_steps = 1
    /\ num_inside = 0
    /\ cur_locations = << >>
    /\ d10pc = "find"

\* The find_map of process_loop, and the first snapshot.
FindActor ==
    /\ d10pc = "find"
    /\ actor_one' \in FoundActors(pipe_maze, maze_start)
    /\ actor_snapshots' = << actor_one' >>
    /\ pipe_maze' = MazeSet(pipe_maze, actor_one'.location, "Processed")
    /\ d10pc' = "walk"
    /\ UNCHANGED <<sketch, maze_start, snapshot_idx, loop_steps, num_inside, cur_locations>>
    /\ UNCHANGED notDay10

\* One iteration of `while actor_one.location != self.start`.
WalkStep ==
    /\ d10pc = "walk"
    /\ actor_one.location # maze_start
    /\ loop_steps < MaxWalk
    /\ loop_steps' = loop_steps + 1
    /\ actor_one' = Advance(actor_one, pipe_maze)
    /\ pipe_maze' = MazeSet(pipe_maze, actor_one'.location, "Processed")
    /\ actor_snapshots' = Append(actor_snapshots, actor_one')
    /\ UNCHANGED <<sketch, maze_start, snapshot_idx, num_inside, cur_locations, d10pc>>
    /\ UNCHANGED notDay10

\* The walk is over: the loop over the snapshots begins.
WalkEnd ==
    /\ d10pc = "walk"
    /\ actor_one.location = maze_start
    /\ snapshot_idx' = 1
    /\ d10pc' = "sides"
    /\ UNCHANGED <<sketch, pipe_maze, maze_start, actor_one, actor_snapshots, loop_steps,
                   num_inside, cur_locations>>
    /\ UNCHANGED notDay10

\* right_locs or left_locs of the next snapshot, on the side the loop
\* contains; flood is called when they push a location.
SnapshotLocs ==
    /\ d10pc = "sides"
    /\ snapshot_idx <= Len(actor_snapshots)
    /\ cur_locations' =
            IF actor_one.num_right > actor_one.num_left
            THEN RightLocs(actor_snapshots[snapshot_idx], pipe_maze)
            ELSE LeftLocs(actor_snapshots[snapshot_idx], pipe_maze)
    /\ IF cur_locations' = << >>
       THEN snapshot_idx' = snapshot_idx + 1 /\ d10pc' = d10pc
       ELSE snapshot_idx' = snapshot_idx /\ d10pc' = "flood"
    /\ UNCHANGED <<sketch, pipe_maze, maze_start, actor_one, actor_snapshots, loop_steps,
                   num_inside>>
    /\ UNCHANGED notDay10

\* One call of flood: `cur` is drained, swapped with `next`, and flood calls
\* itself while `cur` is not empty.
FloodRound ==
    /\ d10pc = "flood"
    /\ LET drained == FloodDrain([maze |-> pipe_maze, inside |-> num_inside,
                                  next |-> << >>], cur_locations, 1)
       IN  /\ pipe_maze' = drained.maze
           /\ num_inside' = drained.inside
           /\ cur_locations' = drained.next
           /\ IF drained.next = << >>
              THEN snapshot_idx' = snapshot_idx + 1 /\ d10pc' = "sides"
              ELSE snapshot_idx' = snapshot_idx /\ d10pc' = d10pc
    /\ UNCHANGED <<sketch, maze_start, actor_one, actor_snapshots, loop_steps>>
    /\ UNCHANGED notDay10

\* self.steps /= 2, and process_loop returns.
LoopReturn ==
    /\ d10pc = "sides"
    /\ snapshot_idx > Len(actor_snapshots)
    /\ loop_steps' = loop_steps \div 2
    /\ d10pc' = "done"
    /\ UNCHANGED <<sketch, pipe_maze, maze_start, actor_one, actor_snapshots, snapshot_idx,
                   num_inside, cur_locations>>
    /\ UNCHANGED notDay10

NextDay10 ==
    FindActor \/ WalkStep \/ WalkEnd \/ SnapshotLocs \/ FloodRound \/ LoopReturn

(***************************************************************************)
(* Day 22: sand slabs.  Bricks are counted from 1 and 0 stands for the     *)
(* usize::MAX of an empty topology cell.                                   *)
(***************************************************************************)

\* settle is followed on every snapshot of NumBricks bricks that lie in
\* 0..MaxSide on x and y and in 1..MaxZ on z, and on the snapshot of
\* tests::example.
NumBricks == 3
MaxSide == 1
MaxZ == 3

Point3D(x, y, z) == [x |-> x, y |-> y, z |-> z]

\* Brick::new
BrickNew(p1, p2) == [start |-> p1, end |-> p2]

\* The bricks of the snapshots: single cubes, lines of two cubes along x, y
\* or z, and plates of two by two.
BrickShapes ==
    { BrickNew(Point3D(x, y, z), Point3D(x + dx, y + dy, z + dz)) :
        x \in 0..MaxSide, y \in 0..MaxSide, z \in 1..MaxZ,
        dx \in 0..1, dy \in 0..1, dz \in 0..1 }

SmallBricks ==
    { b \in BrickShapes :
        /\ b.end.x <= MaxSide /\ b.end.y <= MaxSide /\ b.end.z <= MaxZ
        /\ (b.end.z > b.start.z => (b.end.x = b.start.x /\ b.end.y = b.start.y)) }

\* Whether two bricks share a cube.
Intersect(a, b) ==
    /\ a.start.x <= b.end.x /\ b.start.x <= a.end.x
    /\ a.start.y <= b.end.y /\ b.start.y <= a.end.y
    /\ a.start.z <= b.end.z /\ b.start.z <= a.end.z

\* The snapshots parse_bricks can give: the bricks in any order, no two
\* sharing a cube.
SmallSnapshots ==
    { s \in [1..NumBricks -> SmallBricks] :
        \A i, j \in 1..NumBricks : i < j => ~Intersect(s[i], s[j]) }

\* The snapshot of tests::example.
ExampleSnapshot ==
    << BrickNew(Point3D(1, 0, 1), Point3D(1, 2, 1)),
       BrickNew(Point3D(0, 0, 2), Point3D(2, 0, 2)),
       BrickNew(Point3D(0, 2, 3), Point3D(2, 2, 3)),
       BrickNew(Point3D(0, 0, 4), Point3D(0, 2, 4)),
       BrickNew(Point3D(2, 0, 5), Point3D(2, 2, 5)),
       BrickNew(Point3D(0, 1, 6), Point3D(2, 1, 6)),
       BrickNew(Point3D(1, 1, 8), Point3D(1, 1, 9)) >>

RECURSIVE InsertByZ(_, _)
\* A brick put into a sorted sequence behind the bricks that do not start
\* above it.
InsertByZ(sorted, b) ==
    IF sorted = << >> THEN << b >>
    ELSE IF sorted[Len(sorted)].start.z <= b.start.z THEN Append(sorted, b)
         ELSE Append(InsertByZ(SubSeq(sorted, 1, Len(sorted) - 1), b), sorted[Len(sorted)])

RECURSIVE SortByZ(_, _)
\* bricks.sort_by(|a, b| a.cube.start.z.cmp(&b.cube.start.z)): a stable sort
\* of the first n bricks.
SortByZ(bs, n) ==
    IF n = 0 THEN << >> ELSE InsertByZ(SortByZ(bs, n - 1), bs[n])

\* Brick::set_z
SetZ(b, value) ==
    LET delta == value - b.start.z
    IN  [start |-> [b.start EXCEPT !.z = @ + delta],
         end |-> [b.end EXCEPT !.z = @ + delta]]

Least(a, b) == IF a <= b THEN a ELSE b

Greatest(a, b) == IF a >= b THEN a ELSE b

\* Brick::points: x in the outer loop, y in the inner.
BrickPoints(b) ==
    LET sx == Least(b.start.x, b.end.x)
        ex == Greatest(b.start.x, b.end.x)
        sy == Least(b.start.y, b.end.y)
        ey == Greatest(b.start.y, b.end.y)
        ny == ey - sy + 1
    IN  [k \in 1..(ex - sx + 1) * ny |->
            [x |-> sx + ((k - 1) \div ny), y |-> sy + ((k - 1) % ny)]]

\* max_x and max_y of settle
MaxOfX(bs) ==
    LET xs == {0} \cup { bs[i].start.x : i \in 1..Len(bs) }
                  \cup { bs[i].end.x : i \in 1..Len(bs) }
    IN  CHOOSE m \in xs : \A other \in xs : other <= m

MaxOfY(bs) ==
    LET ys == {0} \cup { bs[i].start.y : i \in 1..Len(bs) }
                  \cup { bs[i].end.y : i \in 1..Len(bs) }
    IN  CHOOSE m \in ys : \A other \in ys : other <= m

\* The body of `if idx != usize::MAX && bricks[idx].cube.end.z >= highest`
\* that forgets to clear highest_idxs.
HighestWithoutClear(st, idx, end_z) ==
    [highest |-> end_z,
     highest_idxs |->
        IF st.highest_idxs = << >> \/ st.highest_idxs[Len(st.highest_idxs)] # idx
        THEN Append(st.highest_idxs, idx)
        ELSE st.highest_idxs]

\* The body of `if idx != usize::MAX && bricks[idx].cube.end.z >= highest`.
HighestWith(st, idx, end_z) ==
    LET kept == IF end_z > st.highest THEN << >> ELSE st.highest_idxs
    IN  [highest |-> end_z,
         highest_idxs |->
            IF kept = << >> \/ kept[Len(kept)] # idx THEN Append(kept, idx) ELSE kept]

RECURSIVE OverPoints(_, _, _, _, _)
\* for Point2D { x, y } in brick.points(): highest, highest_idxs and the
\* topology after the first k points of brick i.
OverPoints(bs, topo, i, points, k) ==
    IF k = 0 THEN [highest |-> 0, highest_idxs |-> << >>, topology |-> topo]
    ELSE LET st == OverPoints(bs, topo, i, points, k - 1)
             at == points[k]
             idx == st.topology[at.y][at.x]
             seen == IF idx # 0 /\ bs[idx].end.z >= st.highest
                     THEN HighestWith(st, idx, bs[idx].end.z)
                     ELSE [highest |-> st.highest, highest_idxs |-> st.highest_idxs]
         IN  [highest |-> seen.highest,
              highest_idxs |-> seen.highest_idxs,
              topology |-> [st.topology EXCEPT ![at.y][at.x] = i]]

RECURSIVE PushAbove(_, _, _, _)
\* for idx in highest_idxs.drain(..) { above[idx].push(i) }
PushAbove(ab, idxs, k, i) ==
    IF k = 0 THEN ab
    ELSE [PushAbove(ab, idxs, k - 1, i) EXCEPT ![idxs[k]] = Append(@, i)]

RECURSIVE SearchAbove(_, _, _, _)
\* for n in above[i].iter(): removed, count and next after the first k of the
\* bricks on brick i.
SearchAbove(st, bl, ns, k) ==
    IF k = 0 THEN st
    ELSE LET before == SearchAbove(st, bl, ns, k - 1)
             n == ns[k]
         IN  IF before.removed[n] THEN before
             ELSE IF \A j \in 1..Len(bl[n]) : before.removed[bl[n][j]]
                  THEN [removed |-> [before.removed EXCEPT ![n] = TRUE],
                        count |-> before.count + 1,
                        next |-> Append(before.next, n)]
                  ELSE before

RECURSIVE SearchGeneration(_, _, _, _, _)
\* for i in generation.drain(..): the state after the first k bricks of the
\* generation.
SearchGeneration(st, ab, bl, gen, k) ==
    IF k = 0 THEN st
    ELSE LET before == SearchGeneration(st, ab, bl, gen, k - 1)
         IN  SearchAbove(before, bl, ab[gen[k]], Len(ab[gen[k]]))

RECURSIVE SearchWhile(_, _, _, _, _)
\* while !generation.is_empty()
SearchWhile(ab, bl, gen, gone, fallen) ==
    IF gen = << >> THEN fallen
    ELSE LET st == SearchGeneration([removed |-> gone, count |-> fallen, next |-> << >>],
                                    ab, bl, gen, Len(gen))
         IN  SearchWhile(ab, bl, st.next, st.removed, st.count)

\* SandSlabs::search
Search(from, ab, bl, num_bricks) ==
    SearchWhile(ab, bl, << from >>,
                [i \in 1..num_bricks |-> i = from], 0)

RECURSIVE RequiredIdxs(_, _)
\* required.into_iter().enumerate().filter(|(_, v)| *v).map(|(idx, _)| idx)
RequiredIdxs(req, n) ==
    IF n = 0 THEN << >>
    ELSE IF req[n] THEN Append(RequiredIdxs(req, n - 1), n) ELSE RequiredIdxs(req, n - 1)

IdleDay22 ==
    /\ snapshot = << >>
    /\ bricks = << >>
    /\ topology = << >>
    /\ above = << >>
    /\ below = << >>
    /\ required = << >>
    /\ settle_idx = 0
    /\ required_idxs = << >>
    /\ d22pc = "idle"
    /\ slab_p1 = 0
    /\ slab_p2 = 0

\* from_str has parsed and sorted the bricks, and settle has set up its
\* tables.
InitDay22 ==
    /\ \E given \in SmallSnapshots \cup {ExampleSnapshot} :
            snapshot = SortByZ(given, Len(given))
    /\ bricks = snapshot
    /\ topology = [y \in 0..MaxOfY(bricks) |-> [x \in 0..MaxOfX(bricks) |-> 0]]
    /\ above = [i \in 1..Len(bricks) |-> << >>]
    /\ below = [i \in 1..Len(bricks) |-> << >>]
    /\ required = [i \in 1..Len(bricks) |-> FALSE]
    /\ settle_idx = 1
    /\ required_idxs = << >>
    /\ d22pc = "settle"
    /\ slab_p1 = 0
    /\ slab_p2 = 0

\* One iteration of `for i in 0..bricks.len()`.
SettleBrick ==
    /\ d22pc = "settle"
    /\ settle_idx <= Len(bricks)
    /\ LET i == settle_idx
           points == BrickPoints(bricks[i])
           st == OverPoints(bricks, topology, i, points, Len(points))
       IN  /\ topology' = st.topology
           /\ required' = IF Len(st.highest_idxs) = 1
                          THEN [required EXCEPT ![st.highest_idxs[1]] = TRUE]
                          ELSE required
           /\ above' = PushAbove(above, st.highest_idxs, Len(st.highest_idxs), i)
           /\ below' = [below EXCEPT ![i] = @ \o st.highest_idxs]
           /\ bricks' = [bricks EXCEPT ![i] = SetZ(@, st.highest + 1)]
    /\ settle_idx' = settle_idx + 1
    /\ UNCHANGED <<snapshot, required_idxs, d22pc, slab_p1, slab_p2>>
    /\ UNCHANGED notDay22

\* required_idxs and p1, once every brick is placed.
CountRequired ==
    /\ d22pc = "settle"
    /\ settle_idx > Len(bricks)
    /\ required_idxs' = RequiredIdxs(required, Len(required))
    /\ slab_p1' = Len(bricks) - Len(required_idxs')
    /\ d22pc' = "search"
    /\ UNCHANGED <<snapshot, bricks, topology, above, below, required, settle_idx, slab_p2>>
    /\ UNCHANGED notDay22

\* One search of `.map(|i| Self::search(i, ..)).sum()`.
SearchFrom ==
    /\ d22pc = "search"
    /\ required_idxs # << >>
    /\ slab_p2' = slab_p2 + Search(Head(required_idxs), above, below, Len(bricks))
    /\ required_idxs' = Tail(required_idxs)
    /\ UNCHANGED <<snapshot, bricks, topology, above, below, required, settle_idx, d22pc,
                   slab_p1>>
    /\ UNCHANGED notDay22

\* settle returns (p1, p2).
SettleReturn ==
    /\ d22pc = "search"
    /\ required_idxs = << >>
    /\ d22pc' = "done"
    /\ UNCHANGED <<snapshot, bricks, topology, above, below, required, settle_idx,
                   required_idxs, slab_p1, slab_p2>>
    /\ UNCHANGED notDay22

NextDay22 == SettleBrick \/ CountRequired \/ SearchFrom \/ SettleReturn

(***************************************************************************)
(* Day 12: hot springs.  A record is a sequence of ".", "#" and "?"; the   *)
(* code's index i is the position i + 1 of the sequence.                   *)
(***************************************************************************)

\* count_arrangements is followed on every record of up to MaxKeyLen springs
\* and up to MaxGroups groups of 1..MaxGroupSize, count_long_arrangements on
\* every record of up to MaxLongKeyLen springs and one group.
MaxKeyLen == 6
MaxGroups == 3
MaxGroupSize == 3
MaxLongKeyLen == 2

Conditions == {".", "#", "?"}

SeqsUpTo(values, n) == UNION { [1..len -> values] : len \in 0..n }

\* Spring::new
SpringNew(key, group_sizes) == [key |-> key, groups |-> group_sizes]

\* Records of tests::example.
ExampleSprings ==
    { SpringNew(<<"?", "?", "?", ".", "#", "#", "#">>, <<1, 1, 3>>),
      SpringNew(<<".", "?", "?", ".", ".", "?", "?", ".", ".", ".", "?", "#", "#", ".">>,
                <<1, 1, 3>>),
      SpringNew(<<"?", "#", "#", "#", "?", "?", "?", "?", "?", "?", "?", "?">>,
                <<3, 2, 1>>) }

ShortSprings ==
    { SpringNew(key, group_sizes) :
        key \in SeqsUpTo(Conditions, MaxKeyLen),
        group_sizes \in SeqsUpTo(1..MaxGroupSize, MaxGroups) }

\* The records count_long_arrangements is followed on.
LongSprings ==
    { SpringNew(key, group_sizes) :
        key \in SeqsUpTo(Conditions, MaxLongKeyLen) \ {<< >>},
        group_sizes \in [1..1 -> 1..MaxGroupSize] }

RECURSIVE JoinCopies(_, _)
\* [&s.key].iter().cycle().take(n).join("?")
JoinCopies(key, n) ==
    IF n = 1 THEN key ELSE JoinCopies(key, n - 1) \o <<"?">> \o key

RECURSIVE CycleTake(_, _)
\* s.groups.iter().copied().cycle().take(n).collect()
CycleTake(group_sizes, n) ==
    IF n = 0 THEN << >>
    ELSE Append(CycleTake(group_sizes, n - 1), group_sizes[((n - 1) % Len(group_sizes)) + 1])

\* long_key and long_groups of count_long_arrangements
LongKey(s) == JoinCopies(s.key, 5)

LongGroups(s) == CycleTake(s.groups, 5 * Len(s.groups))

\* input[i]
ByteAt(record, i) == record[i + 1]

RECURSIVE DamagedSegment(_, _)
\* damaged_segments[i]: the length of the run of springs other than `.` that
\* ends at i
DamagedSegment(record, i) ==
    IF i < 0 THEN 0
    ELSE IF ByteAt(record, i) # "." THEN DamagedSegment(record, i - 1) + 1 ELSE 0

\* first_damaged: the index of the first `#`, input.len() when there is none
FirstDamaged(record) ==
    LET damaged == { i \in 0..Len(record) - 1 : ByteAt(record, i) = "#" }
    IN  IF damaged = {} THEN Len(record)
        ELSE CHOOSE i \in damaged : \A other \in damaged : i <= other

\* previous_undamaged that finds every group preceded by an undamaged spring.
AnyPrevious(record, end, group_size) == TRUE

\* previous_undamaged: end.checked_sub(count).map(|i| input[i])
\*     .filter(|v| *v == b'#').is_none()
PreviousUndamaged(record, end, group_size) ==
    ~(end >= group_size /\ ByteAt(record, end - group_size) = "#")

\* next_damaged: input.get(end + 1).filter(|v| **v == b'#').is_some()
NextDamaged(record, end) ==
    end + 1 < Len(record) /\ ByteAt(record, end + 1) = "#"

RECURSIVE CurUpTo(_, _, _, _, _)
\* for end in 0..input.len(): cur after the iterations up to `last_end`,
\* from the cur the iteration of the group starts with.
CurUpTo(record, group_size, idx, tables, last_end) ==
    IF last_end < 0 THEN [tables.cur EXCEPT ![0] = 0]
    ELSE LET cur == CurUpTo(record, group_size, idx, tables, last_end - 1)
             end == last_end
             last == ByteAt(record, end)
             carried == IF last # "#" THEN cur[end] ELSE 0
             placed ==
                IF /\ last # "."
                   /\ ~NextDamaged(record, end)
                   /\ DamagedSegment(record, end) >= group_size
                   /\ PreviousUndamaged(record, end, group_size)
                THEN IF end >= group_size THEN tables.prev[end - group_size]
                     ELSE IF idx = 0 THEN 1 ELSE 0
                ELSE 0
         IN  [cur EXCEPT ![end + 1] = carried + placed]

IdleDay12 ==
    /\ spring = SpringNew(<< >>, << >>)
    /\ unfolded = FALSE
    /\ springs_input = << >>
    /\ springs_groups = << >>
    /\ dp_prev = << >>
    /\ dp_cur = << >>
    /\ group_idx = 0
    /\ d12pc = "idle"
    /\ d12result = 0

\* count_arrangements or count_long_arrangements calls fast_arrangements on
\* one spring, and fast_arrangements has set up cur and prev.
InitDay12 ==
    /\ \/ spring \in ShortSprings \cup ExampleSprings /\ unfolded = FALSE
       \/ spring \in LongSprings /\ unfolded = TRUE
    /\ springs_input = IF unfolded THEN LongKey(spring) ELSE spring.key
    /\ springs_groups = IF unfolded THEN LongGroups(spring) ELSE spring.groups
    /\ dp_cur = [i \in 0..Len(springs_input) |-> 0]
    /\ dp_prev = [i \in 0..Len(springs_input) |->
                    IF i <= FirstDamaged(springs_input) THEN 1 ELSE 0]
    /\ group_idx = 0
    /\ d12pc = "groups"
    /\ d12result = 0

\* One iteration of `for (idx, count) in groups.iter().copied().enumerate()`,
\* with the swap of cur and prev that ends it.
GroupStep ==
    /\ d12pc = "groups"
    /\ group_idx < Len(springs_groups)
    /\ dp_prev' = CurUpTo(springs_input, springs_groups[group_idx + 1], group_idx,
                          [cur |-> dp_cur, prev |-> dp_prev], Len(springs_input) - 1)
    /\ dp_cur' = dp_prev
    /\ group_idx' = group_idx + 1
    /\ UNCHANGED <<spring, unfolded, springs_input, springs_groups, d12pc, d12result>>
    /\ UNCHANGED notDay12

\* prev[input.len()]
ArrangementsReturn ==
    /\ d12pc = "groups"
    /\ group_idx = Len(springs_groups)
    /\ d12result' = dp_prev[Len(springs_input)]
    /\ d12pc' = "done"
    /\ UNCHANGED <<spring, unfolded, springs_input, springs_groups, dp_prev, dp_cur,
                   group_idx>>
    /\ UNCHANGED notDay12

NextDay12 == GroupStep \/ ArrangementsReturn

(***************************************************************************)
(* Day 7: camel cards.  A Card and a JackJokerCard are written by the name *)
(* of the variant's byte ("2" .. "9", "T", "J", "Q", "K", "A"); their      *)
(* derived orders compare the discriminants.                               *)
(***************************************************************************)

\* Lists of NumHands hands and single hands over SmallDeck are parsed.
NumHands == 3

HandSize == 5

\* enum Card, in the order of its discriminants 0..12
CardVariants == <<"2", "3", "4", "5", "6", "7", "8", "9", "T", "J", "Q", "K", "A">>

\* enum JackJokerCard, in the order of its discriminants 0..12
JackJokerVariants == <<"J", "2", "3", "4", "5", "6", "7", "8", "9", "T", "Q", "K", "A">>

AllCards == {CardVariants[i] : i \in 1..Len(CardVariants)}

\* The discriminant of a Card
CardDiscriminant(card) ==
    (CHOOSE i \in 1..Len(CardVariants) : CardVariants[i] = card) - 1

\* A JackJokerCard ordered as the Card of its name, the jack a face card.
JackAsFace(card) ==
    (CHOOSE i \in 1..Len(CardVariants) : CardVariants[i] = card) - 1

\* The discriminant of a JackJokerCard
JackJokerDiscriminant(card) ==
    (CHOOSE i \in 1..Len(JackJokerVariants) : JackJokerVariants[i] = card) - 1

\* impl From<Card> for JackJokerCard: the variant of the same name
JackJokerFrom(card) == card

\* impl From<&CardSet> for JokerCardSet
JokerCardSetFrom(cards) == [i \in 1..HandSize |-> JackJokerFrom(cards[i])]

\* enum HandKind
HighCard == 0
OnePair == 1
TwoPair == 2
ThreeOfAKind == 3
FullHouse == 4
FourOfAKind == 5
FiveOfAKind == 6

\* The FxHashMap `counts` of Hand::new: a function from the cards of the
\* hand to how many times each occurs.
CardCounts(cards) ==
    [card \in {cards[i] : i \in 1..HandSize} |->
        Cardinality({i \in 1..HandSize : cards[i] = card})]

\* What counts.values() may hand out: the values of the map, each key's once,
\* in any order of the keys.
ValueOrders(counts) ==
    { [i \in 1..Cardinality(DOMAIN counts) |-> counts[keys[i]]] :
        keys \in { order \in [1..Cardinality(DOMAIN counts) -> DOMAIN counts] :
                     \A i, j \in DOMAIN order : i # j => order[i] # order[j] } }

\* The first loop of kinds_for_card_counts (len == 2), from the i-th value:
\* what it returns, or << >> when it runs to its end.
RECURSIVE TwoCountsFrom(_, _, _)
TwoCountsFrom(values, i, joker_count) ==
    IF i > Len(values) THEN << >>
    ELSE LET value == values[i] IN
         IF value = 4 \/ value = 1
         THEN IF joker_count > 0 THEN <<FourOfAKind, FiveOfAKind>>
                                 ELSE <<FourOfAKind, FourOfAKind>>
         ELSE IF value = 2 \/ value = 3
         THEN IF joker_count > 0 THEN <<FullHouse, FiveOfAKind>>
                                 ELSE <<FullHouse, FullHouse>>
         ELSE TwoCountsFrom(values, i + 1, joker_count)

\* The second loop, from the i-th value with num_pairs counted so far: what
\* it returns, or <<num_pairs>> when it runs to its end.
RECURSIVE PairsFrom(_, _, _, _)
PairsFrom(values, i, joker_count, num_pairs) ==
    IF i > Len(values) THEN <<num_pairs>>
    ELSE LET value == values[i] IN
         IF value = 3
         THEN IF joker_count = 1 \/ joker_count = 3
              THEN <<ThreeOfAKind, FourOfAKind>>
              ELSE <<ThreeOfAKind, ThreeOfAKind>>
         ELSE PairsFrom(values, i + 1, joker_count,
                        IF value = 2 THEN num_pairs + 1 ELSE num_pairs)

\* What follows the second loop
AfterPairs(num_pairs, joker_count) ==
    IF num_pairs = 2
    THEN CASE joker_count = 1 -> <<TwoPair, FullHouse>>
           [] joker_count = 2 -> <<TwoPair, FourOfAKind>>
           [] OTHER -> <<TwoPair, TwoPair>>
    ELSE IF num_pairs = 1
    THEN IF joker_count > 0 THEN <<OnePair, ThreeOfAKind>>
                            ELSE <<OnePair, OnePair>>
    ELSE IF joker_count > 0 THEN <<HighCard, OnePair>>
                            ELSE <<HighCard, HighCard>>

\* HandKind::kinds_for_card_counts, with the values of the map in the order
\* it hands them out: <<kind, joker_kind>>
KindsForCardCounts(counts, values) ==
    LET joker_count == IF "J" \in DOMAIN counts THEN counts["J"] ELSE 0
        len == Cardinality(DOMAIN counts)
        first_loop == IF len = 2 THEN TwoCountsFrom(values, 1, joker_count)
                                 ELSE << >>
        second_loop == PairsFrom(values, 1, joker_count, 0)
    IN  IF len = 1 THEN <<FiveOfAKind, FiveOfAKind>>
        ELSE IF first_loop # << >> THEN first_loop
        ELSE IF Len(second_loop) = 2 THEN second_loop
        ELSE AfterPairs(second_loop[1], joker_count)

\* Hand::new
HandNew(cards, bid, values) ==
    LET kinds == KindsForCardCounts(CardCounts(cards), values)
    IN  [kind |-> kinds[1], cards |-> cards,
         joker_kind |-> kinds[2], joker_cards |-> JokerCardSetFrom(cards),
         bid |-> bid]

\* The derived Ord of [Card; 5] and [JackJokerCard; 5]: the first position
\* where the two differ decides.
ArrayLess(a, b, Discriminant(_)) ==
    \E i \in 1..HandSize :
        /\ \A j \in 1..(i - 1) : a[j] = b[j]
        /\ Discriminant(a[i]) < Discriminant(b[i])

\* impl Ord for Hand: Less
HandLess(a, b) ==
    \/ a.kind < b.kind
    \/ a.kind = b.kind /\ ArrayLess(a.cards, b.cards, CardDiscriminant)

\* The comparison part_two hands to sort_by: Less
JokerLess(a, b) ==
    \/ a.joker_kind < b.joker_kind
    \/ a.joker_kind = b.joker_kind
        /\ ArrayLess(a.joker_cards, b.joker_cards, JackJokerDiscriminant)

\* The comparison of hands.sort() or, by_joker, of part_two's sort_by
SortLess(a, b, by_joker) == IF by_joker THEN JokerLess(a, b) ELSE HandLess(a, b)

\* sort and sort_by are stable: an element goes behind everything that is not
\* greater than it.
RECURSIVE InsertHand(_, _, _)
InsertHand(sorted, hand, by_joker) ==
    IF sorted = << >> THEN <<hand>>
    ELSE IF SortLess(hand, sorted[Len(sorted)], by_joker)
         THEN Append(InsertHand(SubSeq(sorted, 1, Len(sorted) - 1), hand, by_joker),
                     sorted[Len(sorted)])
         ELSE Append(sorted, hand)

RECURSIVE SortHands(_, _)
SortHands(list, by_joker) ==
    IF list = << >> THEN << >>
    ELSE InsertHand(SortHands(SubSeq(list, 1, Len(list) - 1), by_joker),
                    list[Len(list)], by_joker)

\* The sum of (rank + 1) * hand.bid over hands.iter().enumerate()
RECURSIVE Winnings(_)
Winnings(list) ==
    IF list = << >> THEN 0
    ELSE Winnings(SubSeq(list, 1, Len(list) - 1)) + Len(list) * list[Len(list)].bid

\* CardSet::from_str, on a text of HandSize card bytes
CardSetFromStr(text) == [i \in 1..HandSize |-> text[i]]

\* The input of tests::example.
ExampleHands ==
    << [text |-> <<"3", "2", "T", "3", "K">>, bid |-> 765],
       [text |-> <<"T", "5", "5", "J", "5">>, bid |-> 684],
       [text |-> <<"K", "K", "6", "7", "7">>, bid |-> 28],
       [text |-> <<"K", "T", "J", "J", "T">>, bid |-> 220],
       [text |-> <<"Q", "Q", "Q", "J", "A">>, bid |-> 483] >>

\* Every choice of five cards from six, the cards from low to high: every
\* pattern of equal cards, with and without jacks.
SmallDeck == {"2", "T", "J", "Q", "K", "A"}

SingleHands ==
    { <<[text |-> text, bid |-> 1]>> :
        text \in { five \in [1..HandSize -> SmallDeck] :
                     \A i \in 1..(HandSize - 1) :
                         CardDiscriminant(five[i]) <= CardDiscriminant(five[i + 1]) } }

\* Hands of every kind that differ late or early, in jacks or not.
PoolTexts ==
    { <<"T", "T", "T", "T", "T">>, <<"J", "J", "J", "J", "J">>,
      <<"Q", "Q", "Q", "Q", "J">>, <<"J", "Q", "Q", "Q", "Q">>,
      <<"T", "T", "T", "Q", "Q">>, <<"T", "T", "J", "J", "T">>,
      <<"Q", "J", "Q", "2", "Q">>, <<"Q", "T", "Q", "2", "Q">>,
      <<"K", "K", "J", "J", "2">>, <<"K", "K", "T", "T", "2">>,
      <<"J", "2", "3", "4", "4">>, <<"Q", "2", "3", "4", "4">>,
      <<"T", "2", "3", "4", "4">>,
      <<"2", "3", "4", "5", "J">>, <<"2", "3", "4", "5", "T">>,
      <<"2", "3", "4", "5", "Q">> }

\* The bids tell the places of a list apart.
PoolHands ==
    { [i \in 1..NumHands |-> [text |-> texts[i], bid |-> 3 * i - 2]] :
        texts \in [1..NumHands -> PoolTexts] }

CamelInputs == {ExampleHands} \cup SingleHands \cup PoolHands

IdleDay7 ==
    /\ camel_input = << >>
    /\ hands = << >>
    /\ d7pc = "idle"
    /\ camel_p1 = -1
    /\ camel_p2 = -1

\* from_str has been handed the input and parse_hands starts on its lines.
InitDay7 ==
    /\ camel_input \in CamelInputs
    /\ hands = << >>
    /\ d7pc = "parse"
    /\ camel_p1 = -1
    /\ camel_p2 = -1

\* parse_hand on the next line: Hand::new, whose map hands out its values in
\* some order.
ParseHand ==
    /\ d7pc = "parse"
    /\ Len(hands) < Len(camel_input)
    /\ LET line == camel_input[Len(hands) + 1]
           cards == CardSetFromStr(line.text)
       IN  \E values \in ValueOrders(CardCounts(cards)) :
               hands' = Append(hands, HandNew(cards, line.bid, values))
    /\ UNCHANGED <<camel_input, d7pc, camel_p1, camel_p2>>
    /\ UNCHANGED notDay7

\* The end of parse_hands: hands.sort(), and from_str returns the instance.
ParseHandsReturn ==
    /\ d7pc = "parse"
    /\ Len(hands) = Len(camel_input)
    /\ hands' = SortHands(hands, FALSE)
    /\ d7pc' = "ready"
    /\ UNCHANGED <<camel_input, camel_p1, camel_p2>>
    /\ UNCHANGED notDay7

\* part_one.  Problem::solve calls it before part_two, and the benchmarks
\* call it on an instance of its own: never on hands part_two has sorted.
PartOneCamel ==
    /\ d7pc = "ready"
    /\ camel_p2 = -1
    /\ camel_p1' = Winnings(hands)
    /\ UNCHANGED <<camel_input, hands, d7pc, camel_p2>>
    /\ UNCHANGED notDay7

\* part_two: sort_by on the instance's hands, then the sum.
PartTwoCamel ==
    /\ d7pc = "ready"
    /\ hands' = SortHands(hands, TRUE)
    /\ camel_p2' = Winnings(hands')
    /\ UNCHANGED <<camel_input, d7pc, camel_p1>>
    /\ UNCHANGED notDay7

NextDay7 ==
    \/ ParseHand
    \/ ParseHandsReturn
    \/ PartOneCamel
    \/ PartTwoCamel

(***************************************************************************)
(* Day 17: clumsy crucible.  A Location is [row, col], both from 0; cell   *)
(* (row, col) of the grid is blocks[row + 1][col + 1].  bucket_dijkstra is *)
(* the library's search: it asks the closure for the edges of the cheapest *)
(* nodes not asked yet, bucket by bucket of equal cost and the start       *)
(* first, and stops at the first such node the goal test accepts.          *)
(***************************************************************************)

\* Every grid of up to MaxBlockRows by MaxBlockCols cells is searched, and
\* grids of WideSide by WideSide cells, where runs of four fit.
MaxBlockRows == 2
MaxBlockCols == 3
WideSide == 5

LocationNew(row, col) == [row |-> row, col |-> col]

\* Node { orientation, location }
CrucibleNode(orientation, location) == [orientation |-> orientation, location |-> location]

\* impl Default for Node
NodeDefault == CrucibleNode("Horizontal", LocationNew(0, 0))

GridHeight(grid) == Len(grid)

GridWidth(grid) == Len(grid[1])

Least2(a, b) == IF a <= b THEN a ELSE b

\* The sum of the cells (row, from) .. (row, to): the `+=` of the loops of
\* horizontal.  The accumulators are u8; max cells of at most 9 stay below 256
\* for the max of both calls.
RECURSIVE RowCost(_, _, _, _)
RowCost(grid, row, from, to) ==
    IF from > to THEN 0
    ELSE grid[row + 1][from + 1] + RowCost(grid, row, from + 1, to)

\* The sum of the cells (from, col) .. (to, col): the loops of vertical.
RECURSIVE ColCost(_, _, _, _)
ColCost(grid, col, from, to) ==
    IF from > to THEN 0
    ELSE grid[from + 1][col + 1] + ColCost(grid, col, from + 1, to)

\* Blocks::horizontal: the pairs <<node, cost>> of the iterator
BlocksHorizontal(grid, start, min, max) ==
    LET \* for i in 1..min.min(start.col + 1): new_col = start.col - i
        cost_west == RowCost(grid, start.row,
                             start.col - (Least2(min, start.col + 1) - 1), start.col - 1)
        \* for i in (start.col + 1)..(start.col + min).min(width)
        cost_east == RowCost(grid, start.row,
                             start.col + 1, Least2(start.col + min, GridWidth(grid)) - 1)
        max_west == Least2(max, start.col)
        max_east == Least2(max, GridWidth(grid) - 1 - start.col)
    IN  { <<CrucibleNode("Horizontal", LocationNew(start.row, start.col + i)),
            cost_east + RowCost(grid, start.row, start.col + min, start.col + i)>> :
            i \in min..max_east }
        \cup
        { <<CrucibleNode("Horizontal", LocationNew(start.row, start.col - i)),
            cost_west + RowCost(grid, start.row, start.col - i, start.col - min)>> :
            i \in min..max_west }

\* Blocks::vertical
BlocksVertical(grid, start, min, max) ==
    LET cost_north == ColCost(grid, start.col,
                              start.row - (Least2(min, start.row + 1) - 1), start.row - 1)
        cost_south == ColCost(grid, start.col,
                              start.row + 1, Least2(start.row + min, GridHeight(grid)) - 1)
        max_north == Least2(max, start.row)
        max_south == Least2(max, GridHeight(grid) - 1 - start.row)
    IN  { <<CrucibleNode("Vertical", LocationNew(start.row + i, start.col)),
            cost_south + ColCost(grid, start.col, start.row + min, start.row + i)>> :
            i \in min..max_south }
        \cup
        { <<CrucibleNode("Vertical", LocationNew(start.row - i, start.col)),
            cost_north + ColCost(grid, start.col, start.row - i, start.row - min)>> :
            i \in min..max_north }

\* The closure without its match on the orientation: every node is offered
\* the runs along both axes.
EdgesBothWays(grid, node, min, max, first) ==
    BlocksHorizontal(grid, node.location, min, max)
        \cup BlocksVertical(grid, node.location, min, max)

\* The closure minimize hands to bucket_dijkstra, called with `first` as it is
NodeEdges(grid, node, min, max, first) ==
    IF first
    THEN BlocksHorizontal(grid, node.location, min, max)
            \cup BlocksVertical(grid, node.location, min, max)
    ELSE IF node.orientation = "Horizontal"
    THEN BlocksVertical(grid, node.location, min, max)
    ELSE BlocksHorizontal(grid, node.location, min, max)

\* let end = Location::new(height - 1, width - 1)
EndLocation(grid) == LocationNew(GridHeight(grid) - 1, GridWidth(grid) - 1)

\* The nodes bucket_dijkstra may take next: the cheapest of those found and
\* not asked yet.
CheapestNodes ==
    { node \in DOMAIN best_cost \ settled_nodes :
        \A other \in DOMAIN best_cost \ settled_nodes :
            best_cost[node] <= best_cost[other] }

\* The costs after the edges of a node have been followed.
FollowEdges(costs, node, edges) ==
    LET found == DOMAIN costs \cup {edge[1] : edge \in edges}
        through(reached) == {costs[node] + edge[2] : edge \in {e \in edges : e[1] = reached}}
        known(reached) == IF reached \in DOMAIN costs THEN {costs[reached]} ELSE {}
    IN  [reached \in found |->
            CHOOSE cost \in through(reached) \cup known(reached) :
                \A other \in through(reached) \cup known(reached) : cost <= other]

\* The grids of tests::example and tests::example2.
ExampleBlocks ==
    << <<2, 4, 1, 3, 4, 3, 2, 3, 1, 1, 3, 2, 3>>,
       <<3, 2, 1, 5, 4, 5, 3, 5, 3, 5, 6, 2, 3>>,
       <<3, 2, 5, 5, 2, 4, 5, 6, 5, 4, 2, 5, 4>>,
       <<3, 4, 4, 6, 5, 8, 5, 8, 4, 5, 4, 5, 2>>,
       <<4, 5, 4, 6, 6, 5, 7, 8, 6, 7, 5, 3, 6>>,
       <<1, 4, 3, 8, 5, 9, 8, 7, 9, 8, 4, 5, 4>>,
       <<4, 4, 5, 7, 8, 7, 6, 9, 8, 7, 7, 6, 6>>,
       <<3, 6, 3, 7, 8, 7, 7, 9, 7, 9, 6, 5, 3>>,
       <<4, 6, 5, 4, 9, 6, 7, 9, 8, 6, 8, 8, 7>>,
       <<4, 5, 6, 4, 6, 7, 9, 9, 8, 6, 4, 5, 3>>,
       <<1, 2, 2, 4, 6, 8, 6, 8, 6, 5, 5, 6, 3>>,
       <<2, 5, 4, 6, 5, 4, 8, 8, 8, 7, 7, 3, 5>>,
       <<4, 3, 2, 2, 6, 7, 4, 6, 5, 5, 5, 3, 3>> >>

ExampleBlocks2 ==
    << <<1, 1, 1, 1, 1, 1, 1, 1, 1, 1, 1, 1>>,
       <<9, 9, 9, 9, 9, 9, 9, 9, 9, 9, 9, 1>>,
       <<9, 9, 9, 9, 9, 9, 9, 9, 9, 9, 9, 1>>,
       <<9, 9, 9, 9, 9, 9, 9, 9, 9, 9, 9, 1>>,
       <<9, 9, 9, 9, 9, 9, 9, 9, 9, 9, 9, 1>> >>

\* Every grid of up to MaxBlockRows by MaxBlockCols cells of 0, 1 and 9, and
\* every square grid one wider of 1 and 9.
SmallBlocks ==
    UNION { [1..height -> [1..width -> {0, 1, 9}]] :
              height \in 1..MaxBlockRows, width \in 1..MaxBlockCols }
    \cup [1..(MaxBlockRows + 1) -> [1..(MaxBlockRows + 1) -> {1, 9}]]

\* Grids of WideSide by WideSide cells: a weight per row, none on the first
\* and the last, plus one per column.
WideBlocks ==
    { [row \in 1..WideSide |-> [col \in 1..WideSide |-> rows[row] + cols[col]]] :
        rows \in { weights \in [1..WideSide -> {0, 4}] :
                    weights[1] = 0 /\ weights[WideSide] = 0 },
        cols \in { [col \in 1..WideSide |-> 1],
                   [col \in 1..WideSide |-> IF col = 1 THEN 5 ELSE 1],
                   [col \in 1..WideSide |-> IF col = WideSide THEN 5 ELSE 1],
                   [col \in 1..WideSide |-> IF col % 2 = 0 THEN 5 ELSE 1] } }

BlocksGrids == {ExampleBlocks, ExampleBlocks2} \cup SmallBlocks \cup WideBlocks

\* The two calls of from_str: minimize(1, 3) and minimize(4, 10)
MinimizeCalls == {<<1, 3>>, <<4, 10>>}

IdleDay17 ==
    /\ blocks = << >>
    /\ run_min = 0
    /\ run_max = 0
    /\ first_call = FALSE
    /\ best_cost = << >>
    /\ settled_nodes = {}
    /\ d17pc = "idle"
    /\ heat_loss = 0

\* minimize has been called: start and end are set, first is true and
\* bucket_dijkstra holds the start at cost 0.
InitDay17 ==
    /\ blocks \in BlocksGrids
    /\ \E call \in MinimizeCalls : run_min = call[1] /\ run_max = call[2]
    /\ first_call = TRUE
    /\ best_cost = [node \in {NodeDefault} |-> 0]
    /\ settled_nodes = {}
    /\ d17pc = "search"
    /\ heat_loss = 0

\* The costs after the closure has been called on every node of a bucket.
RECURSIVE FollowBucket(_, _, _)
FollowBucket(costs, bucket, first) ==
    IF bucket = {} THEN costs
    ELSE LET node == CHOOSE n \in bucket : TRUE
         IN  FollowBucket(FollowEdges(costs, node,
                              NodeEdges(blocks, node, run_min, run_max, first)),
                          bucket \ {node}, FALSE)

\* bucket_dijkstra empties its cheapest bucket, none of whose nodes the goal
\* test accepts: the closure is called on each of them, in an order that
\* does not change the costs they leave.
VisitBucket ==
    /\ d17pc = "search"
    /\ CheapestNodes # {}
    /\ \A node \in CheapestNodes : node.location # EndLocation(blocks)
    /\ best_cost' = FollowBucket(best_cost, CheapestNodes, first_call)
    /\ settled_nodes' = settled_nodes \cup CheapestNodes
    /\ first_call' = FALSE
    /\ UNCHANGED <<blocks, run_min, run_max, d17pc, heat_loss>>
    /\ UNCHANGED notDay17

\* bucket_dijkstra takes from its cheapest bucket a node the goal test
\* accepts: result.cost() is its cost.
MinimizeReturn ==
    /\ d17pc = "search"
    /\ \E node \in CheapestNodes :
        /\ node.location = EndLocation(blocks)
        /\ heat_loss' = best_cost[node]
    /\ d17pc' = "done"
    /\ UNCHANGED <<blocks, run_min, run_max, first_call, best_cost, settled_nodes>>
    /\ UNCHANGED notDay17

\* bucket_dijkstra runs out of nodes: result.cost().unwrap_or_default() is 0.
MinimizeDefault ==
    /\ d17pc = "search"
    /\ DOMAIN best_cost \ settled_nodes = {}
    /\ heat_loss' = 0
    /\ d17pc' = "done"
    /\ UNCHANGED <<blocks, run_min, run_max, first_call, best_cost, settled_nodes>>
    /\ UNCHANGED notDay17

NextDay17 ==
    \/ VisitBucket
    \/ MinimizeReturn
    \/ MinimizeDefault

(***************************************************************************)
(* Day 18: lavaduct lagoon.  An Instruction is [direction, amount] with a  *)
(* direction of "U", "D", "L", "R" and an i64 amount; parse_instruction    *)
(* reads the amount with complete::i64, sign included.                     *)
(***************************************************************************)

\* Every plan of up to MaxInstructions instructions with amounts of
\* 1..MaxAmount and -MaxAmount is dug, and the plan of tests::example.
MaxInstructions == 4
MaxAmount == 2

Point2D(x, y) == [x |-> x, y |-> y]

InstructionNew(direction, amount) == [direction |-> direction, amount |-> amount]

\* i64 `/`: the quotient rounded towards zero
TruncDiv(n, d) == IF n >= 0 THEN n \div d ELSE -((-n) \div d)

AbsI64(n) == IF n >= 0 THEN n ELSE -n

\* The match of make_veritices on inst.direction
MoveCur(point, instruction) ==
    CASE instruction.direction = "U" -> Point2D(point.x, point.y + instruction.amount)
      [] instruction.direction = "D" -> Point2D(point.x, point.y - instruction.amount)
      [] instruction.direction = "L" -> Point2D(point.x - instruction.amount, point.y)
      [] instruction.direction = "R" -> Point2D(point.x + instruction.amount, point.y)

\* The sum of a.y * b.x - a.x * b.y over the tuple_windows of the first n
\* vertices
RECURSIVE WindowSum(_, _)
WindowSum(points, n) ==
    IF n < 2 THEN 0
    ELSE WindowSum(points, n - 1)
            + points[n - 1].y * points[n].x - points[n - 1].x * points[n].y

\* area_from_verticies
AreaFromVerticies(points) == AbsI64(WindowSum(points, Len(points))) \div 2

\* The two lines of dig after the area
DigCount(area, around) ==
    LET inside == area - TruncDiv(around, 2) + 1
    IN  around + inside

\* The first instructions of tests::example
ExamplePlan ==
    << InstructionNew("R", 6), InstructionNew("D", 5), InstructionNew("L", 2),
       InstructionNew("D", 2), InstructionNew("R", 2), InstructionNew("D", 2),
       InstructionNew("L", 5), InstructionNew("U", 2), InstructionNew("L", 1),
       InstructionNew("U", 2), InstructionNew("R", 2), InstructionNew("U", 3),
       InstructionNew("L", 2), InstructionNew("U", 2) >>

Instructions ==
    [direction : {"U", "D", "L", "R"}, amount : (1..MaxAmount) \cup {-MaxAmount}]

\* Six-sided plans, dug in both senses.
CornerPlans ==
    UNION { { << InstructionNew("R", wide + 1), InstructionNew("U", 1),
                 InstructionNew("L", 1), InstructionNew("U", high),
                 InstructionNew("L", wide), InstructionNew("D", high + 1) >>,
              << InstructionNew("U", high + 1), InstructionNew("R", wide),
                 InstructionNew("D", high), InstructionNew("R", 1),
                 InstructionNew("D", 1), InstructionNew("L", wide + 1) >> } :
            wide \in 1..MaxAmount, high \in 1..MaxAmount }

DigPlans ==
    {ExamplePlan} \cup CornerPlans
        \cup UNION { [1..len -> Instructions] : len \in 1..MaxInstructions }

IdleDay18 ==
    /\ dig_plan = << >>
    /\ dig_cur = Point2D(0, 0)
    /\ verticies = << >>
    /\ perimeter = 0
    /\ d18pc = "idle"
    /\ dig_result = 0

\* dig has called make_veritices: cur is Point2D::default(), perimeter 0.
InitDay18 ==
    /\ dig_plan \in DigPlans
    /\ dig_cur = Point2D(0, 0)
    /\ verticies = << >>
    /\ perimeter = 0
    /\ d18pc = "vertices"
    /\ dig_result = 0

\* One iteration of `for inst in iter`
MakeVertex ==
    /\ d18pc = "vertices"
    /\ Len(verticies) < Len(dig_plan)
    /\ LET instruction == dig_plan[Len(verticies) + 1]
       IN  /\ dig_cur' = MoveCur(dig_cur, instruction)
           /\ verticies' = Append(verticies, dig_cur')
           /\ perimeter' = perimeter + instruction.amount
    /\ UNCHANGED <<dig_plan, d18pc, dig_result>>
    /\ UNCHANGED notDay18

\* make_veritices returns and dig computes the area and its result.
DigReturn ==
    /\ d18pc = "vertices"
    /\ Len(verticies) = Len(dig_plan)
    /\ dig_result' = DigCount(AreaFromVerticies(verticies), perimeter)
    /\ d18pc' = "done"
    /\ UNCHANGED <<dig_plan, dig_cur, verticies, perimeter>>
    /\ UNCHANGED notDay18

NextDay18 ==
    \/ MakeVertex
    \/ DigReturn

(***************************************************************************)
(* Day 13: point of incidence.  A u32 is the set of the positions of its   *)
(* one bits, 0 the lowest; cell (row, col), both from 0, of a pattern is   *)
(* mirror_text[row + 1][col + 1].                                          *)
(***************************************************************************)

\* Every pattern of up to MaxMirrorRows by MaxMirrorCols cells is mirrored,
\* and patterns of one line of WordBits - 1 or WordBits cells, lying and
\* upright.
MaxMirrorRows == 3
MaxMirrorCols == 4

\* The bits of a u32
WordBits == 32

\* u32::MAX
WordMax == 0..(WordBits - 1)

\* word >> n, for n < 32
ShiftRight(word, n) == {bit - n : bit \in {b \in word : b >= n}}

\* word.reverse_bits()
ReverseBits(word) == {WordBits - 1 - bit : bit \in word}

\* word.count_ones()
CountOnes(word) == Cardinality(word)

\* a ^ b
BitXor(a, b) == (a \ b) \cup (b \ a)

\* BitMirror::from_str on a pattern whose lines have the length of the first
\* and which has at most 32 lines of at most 32 cells: 1 << row and 1 << col
\* stay inside the word.
ParseMirror(lines) ==
    LET width == IF lines = << >> THEN 0 ELSE Len(lines[1])
    IN  [horizontal |-> [row \in 1..Len(lines) |->
                            {col \in 0..(width - 1) : lines[row][col + 1] = "#"}],
         vertical |-> [col \in 1..width |->
                            {row \in 0..(Len(lines) - 1) : lines[row + 1][col] = "#"}],
         width |-> width,
         height |-> Len(lines)]

\* let shift = if limit < i { i - limit } else { 0 }, with no shift at all
ShiftNone(limit, i) == 0

\* let shift = if limit < i { i - limit } else { 0 }
MaskShift(limit, i) == IF limit < i THEN i - limit ELSE 0

\* masked ^ reversed for one row or column at line i of `length` lines
MaskedXorReversed(word, length, i) ==
    LET limit == length - i
        adjust == WordBits - (IF limit <= i THEN limit ELSE i)
        mask == ShiftRight(WordMax, adjust)
        shift == MaskShift(limit, i)
        reversed == ShiftRight(ReverseBits(ShiftRight(word, i)), adjust)
        masked == ShiftRight(word, shift) \cap mask
    IN  BitXor(masked, reversed)

\* The inner loop of reflect_horizontal / reflect_vertical from the n-th word:
\* FALSE at `continue 'outer`, TRUE when it runs to its end.
RECURSIVE AllMirrored(_, _, _, _)
AllMirrored(words, n, length, i) ==
    IF n > Len(words) THEN TRUE
    ELSE IF MaskedXorReversed(words[n], length, i) # {} THEN FALSE
    ELSE AllMirrored(words, n + 1, length, i)

\* The inner loop of the one_off functions from the n-th word and what follows
\* it: FALSE at `continue 'outer`, else whether one_count == 1.
RECURSIVE OneOff(_, _, _, _, _)
OneOff(words, n, length, i, one_count) ==
    IF n > Len(words) THEN one_count = 1
    ELSE LET counted == one_count + CountOnes(MaskedXorReversed(words[n], length, i))
         IN  IF counted > 1 THEN FALSE
             ELSE OneOff(words, n + 1, length, i, counted)

\* Whether iteration i of the 'outer loop returns Some
LineFound(words, length, i, one_off) ==
    IF one_off THEN OneOff(words, 1, length, i, 0)
    ELSE AllMirrored(words, 1, length, i)

\* The patterns of tests::example.
ExampleMirror1 ==
    << <<"#", ".", "#", "#", ".", ".", "#", "#", ".">>,
       <<".", ".", "#", ".", "#", "#", ".", "#", ".">>,
       <<"#", "#", ".", ".", ".", ".", ".", ".", "#">>,
       <<"#", "#", ".", ".", ".", ".", ".", ".", "#">>,
       <<".", ".", "#", ".", "#", "#", ".", "#", ".">>,
       <<".", ".", "#", "#", ".", ".", "#", "#", ".">>,
       <<"#", ".", "#", ".", "#", "#", ".", "#", ".">> >>

ExampleMirror2 ==
    << <<"#", ".", ".", ".", "#", "#", ".", ".", "#">>,
       <<"#", ".", ".", ".", ".", "#", ".", ".", "#">>,
       <<".", ".", "#", "#", ".", ".", "#", "#", "#">>,
       <<"#", "#", "#", "#", "#", ".", "#", "#", ".">>,
       <<"#", "#", "#", "#", "#", ".", "#", "#", ".">>,
       <<".", ".", "#", "#", ".", ".", "#", "#", "#">>,
       <<"#", ".", ".", ".", ".", "#", ".", ".", "#">> >>

SmallMirrors ==
    UNION { [1..height -> [1..width -> {"#", "."}]] :
              height \in 1..MaxMirrorRows, width \in 1..MaxMirrorCols }

\* One line of WordBits - 1 or WordBits cells with rocks among its first
\* two, its middle three and its last two cells.
LongLines ==
    { [cell \in 1..length |-> IF cell \in rocks THEN "#" ELSE "."] :
        length \in {WordBits - 1, WordBits},
        rocks \in SUBSET {1, 2, WordBits \div 2 - 1, WordBits \div 2, WordBits \div 2 + 1,
                          WordBits - 1, WordBits} }

\* The line lying, and the line upright.
LongMirrors ==
    { <<line>> : line \in LongLines }
        \cup { [row \in 1..Len(line) |-> <<line[row]>>] : line \in LongLines }

MirrorTexts == {ExampleMirror1, ExampleMirror2} \cup SmallMirrors \cup LongMirrors

IdleDay13 ==
    /\ mirror_text = << >>
    /\ bit_mirror = ParseMirror(<< >>)
    /\ smudge = FALSE
    /\ line_i = 0
    /\ vertical_res = 0
    /\ d13pc = "idle"
    /\ incidence = 0

\* from_str has built the BitMirror and the closure of summarize or of
\* fix_smudge calls reflect_vertical or reflect_vertical_one_off on it.
InitDay13 ==
    /\ mirror_text \in MirrorTexts
    /\ bit_mirror = ParseMirror(mirror_text)
    /\ smudge \in BOOLEAN
    /\ line_i = 1
    /\ vertical_res = 0
    /\ d13pc = "vertical"
    /\ incidence = 0

\* One iteration of `'outer: for i in 1..self.height`: Some(i * 100) ends the
\* call, and the closure calls the horizontal function.
VerticalStep ==
    /\ d13pc = "vertical"
    /\ line_i < bit_mirror.height
    /\ IF LineFound(bit_mirror.vertical, bit_mirror.height, line_i, smudge)
       THEN /\ vertical_res' = line_i * 100
            /\ d13pc' = "horizontal"
            /\ line_i' = 1
       ELSE /\ line_i' = line_i + 1
            /\ UNCHANGED <<vertical_res, d13pc>>
    /\ UNCHANGED <<mirror_text, bit_mirror, smudge, incidence>>
    /\ UNCHANGED notDay13

\* The loop ends: None, and unwrap_or(0).
VerticalNone ==
    /\ d13pc = "vertical"
    /\ line_i >= bit_mirror.height
    /\ vertical_res' = 0
    /\ d13pc' = "horizontal"
    /\ line_i' = 1
    /\ UNCHANGED <<mirror_text, bit_mirror, smudge, incidence>>
    /\ UNCHANGED notDay13

\* One iteration of `'outer: for i in 1..self.width`: Some(i) ends the call
\* and the closure returns the sum.
HorizontalStep ==
    /\ d13pc = "horizontal"
    /\ line_i < bit_mirror.width
    /\ IF LineFound(bit_mirror.horizontal, bit_mirror.width, line_i, smudge)
       THEN /\ incidence' = vertical_res + line_i
            /\ d13pc' = "done"
            /\ UNCHANGED line_i
       ELSE /\ line_i' = line_i + 1
            /\ UNCHANGED <<incidence, d13pc>>
    /\ UNCHANGED <<mirror_text, bit_mirror, smudge, vertical_res>>
    /\ UNCHANGED notDay13

\* The loop ends: None, unwrap_or(0), and the closure returns the sum.
HorizontalNone ==
    /\ d13pc = "horizontal"
    /\ line_i >= bit_mirror.width
    /\ incidence' = vertical_res + 0
    /\ d13pc' = "done"
    /\ UNCHANGED <<mirror_text, bit_mirror, smudge, line_i, vertical_res>>
    /\ UNCHANGED notDay13

NextDay13 ==
    \/ VerticalStep
    \/ VerticalNone
    \/ HorizontalStep
    \/ HorizontalNone

(***************************************************************************)
(* Day 6: wait for it.  ways_to_beat is called with time and record up to  *)
(* MaxTime and MaxRecord, and with the races of tests::example.  On these  *)
(* values t * t - 4.0 * r is an exact f64, its square root is exact when   *)
(* it is a whole number and is otherwise further from every whole number   *)
(* than the rounding of sqrt, + and * 0.5 can move it, so that ceil and    *)
(* floor give what they give on the real roots.                            *)
(***************************************************************************)

MaxTime == 12
MaxRecord == 40

\* t2 - 4.0 * r
RaceDiscriminant(time, record) == time * time - 4 * record

\* lower_raw.ceil() as i64: the least x with x >= 0.5 * (t - sqrt(d)); the
\* square root of a negative number is NaN and NaN as i64 is 0.
LowerRaw(time, record) ==
    LET d == RaceDiscriminant(time, record)
    IN  IF d < 0 THEN 0
        ELSE CHOOSE x \in 0..(time + 1) :
                /\ 2 * x >= time \/ (time - 2 * x) * (time - 2 * x) <= d
                /\ \A y \in 0..(x - 1) :
                      ~(2 * y >= time \/ (time - 2 * y) * (time - 2 * y) <= d)

\* upper_raw.floor() as i64: the greatest x with x <= 0.5 * (t + sqrt(d))
UpperRaw(time, record) ==
    LET d == RaceDiscriminant(time, record)
    IN  IF d < 0 THEN 0
        ELSE CHOOSE x \in 0..time :
                /\ 2 * x <= time \/ (2 * x - time) * (2 * x - time) <= d
                /\ \A y \in (x + 1)..time :
                      ~(2 * y <= time \/ (2 * y - time) * (2 * y - time) <= d)

\* (time - x) * x <= record, the condition of both while loops
NotBeating(time, x, record) == (time - x) * x <= record

\* The races of tests::example, part one.
ExampleRaces == {<<7, 9>>, <<15, 40>>, <<30, 200>>}

Races == ((0..MaxTime) \X (0..MaxRecord)) \cup ExampleRaces

IdleDay6 ==
    /\ race_time = 0
    /\ race_record = 0
    /\ race_lower = 0
    /\ race_upper = 0
    /\ d6pc = "idle"
    /\ race_ways = 0

\* ways_to_beat up to the first while loop.
InitDay6 ==
    /\ \E race \in Races :
          /\ race_time = race[1]
          /\ race_record = race[2]
    /\ race_lower = LowerRaw(race_time, race_record)
    /\ race_upper = UpperRaw(race_time, race_record)
    /\ d6pc = "lower"
    /\ race_ways = 0

\* while (time - lower) * lower <= record { lower += 1; }, one iteration
WhileLower ==
    /\ d6pc = "lower"
    /\ NotBeating(race_time, race_lower, race_record)
    /\ race_lower <= race_time
    /\ race_lower' = race_lower + 1
    /\ UNCHANGED <<race_time, race_record, race_upper, d6pc, race_ways>>
    /\ UNCHANGED notDay6

\* The same loop with lower past time: the product is negative and falls
\* with every iteration, so with record >= 0 the condition holds on every
\* iteration until (time - lower) * lower leaves i64, where a build with
\* overflow checks panics and a build without them goes on with the wrapped
\* product.
LowerOverflow ==
    /\ d6pc = "lower"
    /\ NotBeating(race_time, race_lower, race_record)
    /\ race_lower > race_time
    /\ d6pc' \in {"panicked", "wrapped"}
    /\ UNCHANGED <<race_time, race_record, race_lower, race_upper, race_ways>>
    /\ UNCHANGED notDay6

\* The first loop ends.
LowerDone ==
    /\ d6pc = "lower"
    /\ ~NotBeating(race_time, race_lower, race_record)
    /\ d6pc' = "upper"
    /\ UNCHANGED <<race_time, race_record, race_lower, race_upper, race_ways>>
    /\ UNCHANGED notDay6

\* while (time - upper) * upper <= record { upper -= 1; }, one iteration
WhileUpper ==
    /\ d6pc = "upper"
    /\ NotBeating(race_time, race_upper, race_record)
    /\ race_upper' = race_upper - 1
    /\ UNCHANGED <<race_time, race_record, race_lower, d6pc, race_ways>>
    /\ UNCHANGED notDay6

\* upper - lower + 1
WaysReturn ==
    /\ d6pc = "upper"
    /\ ~NotBeating(race_time, race_upper, race_record)
    /\ race_ways' = race_upper - race_lower + 1
    /\ d6pc' = "done"
    /\ UNCHANGED <<race_time, race_record, race_lower, race_upper>>
    /\ UNCHANGED notDay6

NextDay6 ==
    \/ WhileLower
    \/ LowerOverflow
    \/ LowerDone
    \/ WhileUpper
    \/ WaysReturn

(***************************************************************************)
(* aoc-plumbing: Solution.  A part is a value of a type that is Display    *)
(* and Serialize: a &str or an integer, [quoted, chars] with the           *)
(* characters Display writes for it and whether JSON puts it in quotes.    *)
(* Texts are sequences of one-character strings.  The strings here hold    *)
(* no character that JSON escapes.                                         *)
(***************************************************************************)

\* The integers a part takes here are below MaxPart.
MaxPart == 12

DigitChars == <<"0", "1", "2", "3", "4", "5", "6", "7", "8", "9">>

\* Display for an unsigned integer
RECURSIVE Digits(_)
Digits(n) ==
    IF n < 10 THEN <<DigitChars[n + 1]>>
    ELSE Digits(n \div 10) \o <<DigitChars[(n % 10) + 1]>>

StrPart(chars) == [quoted |-> TRUE, chars |-> chars]

IntPart(n) == [quoted |-> FALSE, chars |-> Digits(n)]

NotImplementedChars ==
    <<"n", "o", "t", " ", "i", "m", "p", "l", "e", "m", "e", "n", "t", "e", "d">>

HelloWorldChars == <<"h", "e", "l", "l", "o", " ", "w", "o", "r", "l", "d">>

\* Solution::new
SolutionNew(part_one, part_two) == [part_one |-> part_one, part_two |-> part_two]

\* impl Default for Solution<&str, &str>
SolutionDefault == SolutionNew(StrPart(NotImplementedChars), StrPart(NotImplementedChars))

\* The format string of write! in Display::fmt with its arguments in place
\* of the two {}: literal text and the arguments in the order they are given.
FmtPieces(first, second) ==
    << <<"p", "a", "r", "t", " ", "1", ":", " ">>, first.chars,
       <<"\n", "p", "a", "r", "t", " ", "2", ":", " ">>, second.chars >>

RECURSIVE WriteAll(_)
WriteAll(pieces) ==
    IF pieces = << >> THEN << >> ELSE Head(pieces) \o WriteAll(Tail(pieces))

\* write! with the parts the other way round
FmtSwapped(sol) == WriteAll(FmtPieces(sol.part_two, sol.part_one))

\* impl Display for Solution: fmt
SolutionFmt(sol) == WriteAll(FmtPieces(sol.part_one, sol.part_two))

\* The fields of the struct in the order of their declaration, which is the
\* order derive(Serialize) serializes them in, under their own names.
StructFields ==
    << <<"p", "a", "r", "t", "_", "o", "n", "e">>,
       <<"p", "a", "r", "t", "_", "t", "w", "o">> >>

FieldOf(sol, n) == IF n = 1 THEN sol.part_one ELSE sol.part_two

\* serde_json on a &str without characters to escape and on an integer
JsonValue(part) ==
    IF part.quoted THEN <<"\"">> \o part.chars \o <<"\"">> ELSE part.chars

\* serde_json's compact object from its members
RECURSIVE JsonMembers(_, _)
JsonMembers(list, n) ==
    IF n > Len(list) THEN << >>
    ELSE (IF n > 1 THEN <<",">> ELSE << >>)
            \o <<"\"">> \o list[n].name \o <<"\"", ":">> \o list[n].json
            \o JsonMembers(list, n + 1)

JsonObject(list) == <<"{">> \o JsonMembers(list, 1) \o <<"}">>

\* Strings of the doc tests and short ones, integers of the doc test and
\* small ones.
PartValues ==
    {StrPart(NotImplementedChars), StrPart(HelloWorldChars), StrPart(<< >>),
     StrPart(<<"a">>), StrPart(<<"1">>), StrPart(<<"a", " ">>), IntPart(12345)}
        \cup {IntPart(n) : n \in 0..MaxPart}

IdleSolution ==
    /\ sol_made = SolutionDefault
    /\ made_by = "none"
    /\ sol_text = << >>
    /\ sol_members = << >>
    /\ sol_field = 1
    /\ sol_json = << >>
    /\ solpc = "idle"

\* A Solution from Solution::new or from Solution::default().
InitSolution ==
    /\ \/ /\ made_by = "new"
          /\ \E part_one \in PartValues, part_two \in PartValues :
                sol_made = SolutionNew(part_one, part_two)
       \/ /\ made_by = "default"
          /\ sol_made = SolutionDefault
    /\ sol_text = << >>
    /\ sol_members = << >>
    /\ sol_field = 1
    /\ sol_json = << >>
    /\ solpc = "made"

\* s.to_string(): Display::fmt into an empty String.
DisplayFmt ==
    /\ solpc # "idle"
    /\ sol_text = << >>
    /\ sol_text' = SolutionFmt(sol_made)
    /\ UNCHANGED <<sol_made, made_by, sol_members, sol_field, sol_json, solpc>>
    /\ UNCHANGED notSolution

\* serde_json::to_string(&s): the derived serialize opens the struct.
SerializeStruct ==
    /\ solpc = "made"
    /\ solpc' = "struct"
    /\ sol_members' = << >>
    /\ sol_field' = 1
    /\ UNCHANGED <<sol_made, made_by, sol_text, sol_json>>
    /\ UNCHANGED notSolution

\* serialize_field for the next field.
SerializeField ==
    /\ solpc = "struct"
    /\ sol_field <= Len(StructFields)
    /\ sol_members' = Append(sol_members,
                             [name |-> StructFields[sol_field],
                              json |-> JsonValue(FieldOf(sol_made, sol_field))])
    /\ sol_field' = sol_field + 1
    /\ UNCHANGED <<sol_made, made_by, sol_text, sol_json, solpc>>
    /\ UNCHANGED notSolution

\* end(): the object is closed and to_string returns the text.
SerializeEnd ==
    /\ solpc = "struct"
    /\ sol_field > Len(StructFields)
    /\ sol_json' = JsonObject(sol_members)
    /\ solpc' = "end"
    /\ UNCHANGED <<sol_made, made_by, sol_text, sol_members, sol_field>>
    /\ UNCHANGED notSolution

NextSolution ==
    \/ DisplayFmt
    \/ SerializeStruct
    \/ SerializeField
    \/ SerializeEnd

(***************************************************************************)
(* Day 14: Dish2 as it is stored, and part_one and part_two called one     *)
(* after the other on one ParabolicReflectorDish.  rounds is the Vec of    *)
(* the points <<row, column>>; rounds_in_rows and rounds_in_cols hold      *)
(* indices into it, here from 1.                                           *)
(***************************************************************************)

\* Up to MaxCalls calls are made on one instance.
MaxCalls == 3

\* cycle is followed for up to MaxSpins passes of its loop.
MaxSpins == 40

\* part_two: self.dish2.cycle(1_000_000_000)
CycleCount == 1000000000

\* The intervals of a line in the order from_str pushes them: by start.
RECURSIVE IntervalSeq(_)
IntervalSeq(set) ==
    IF set = {} THEN << >>
    ELSE LET first == CHOOSE iv \in set : \A other \in set : iv.start <= other.start
         IN  <<first>> \o IntervalSeq(set \ {first})

\* self.col_intervals[line] or self.row_intervals[line]
LineIntervals(grid, line, vertical) ==
    IntervalSeq(IF vertical THEN col_intervals(grid, line) ELSE row_intervals(grid, line))

\* from_str: the 'O' cells of a row from column col on.
RECURSIVE RowRounds(_, _, _)
RowRounds(grid, row, col) ==
    IF col >= grid.width THEN << >>
    ELSE (IF <<row, col>> \in grid.rounds THEN << <<row, col>> >> ELSE << >>)
            \o RowRounds(grid, row, col + 1)

\* from_str: the 'O' cells from a row on, row by row.
RECURSIVE RoundsFrom(_, _)
RoundsFrom(grid, row) ==
    IF row >= grid.height THEN << >>
    ELSE RowRounds(grid, row, 0) \o RoundsFrom(grid, row + 1)

\* The indices from n on of the rounds in column col, in their order.
RECURSIVE IdxWhere(_, _, _)
IdxWhere(rs, col, n) ==
    IF n > Len(rs) THEN << >>
    ELSE (IF rs[n][2] = col THEN <<n>> ELSE << >>) \o IdxWhere(rs, col, n + 1)

\* impl FromStr for Dish2, without the intervals, which stay as parsed.
Dish2FromStr(grid) ==
    LET rs == RoundsFrom(grid, 0)
    IN  [rounds |-> rs,
         rounds_in_rows |-> [row \in 1..grid.height |-> << >>],
         rounds_in_cols |-> [col \in 1..grid.width |-> IdxWhere(rs, col - 1, 1)]]

\* intervals[interval_idx].start + p: every round of a bucket to its start
SlotAtEnd(iv, p, to_start) == IF to_start THEN iv.start ELSE iv.end

\* intervals[interval_idx].start + p as i8, or .end - p as i8
Slot(iv, p, to_start) == IF to_start THEN iv.start + p ELSE iv.end - p

\* The bucket of an interval: the drained indices, from the n-th on, whose
\* round the interval contains.
RECURSIVE BucketOf(_, _, _, _, _)
BucketOf(listed, n, rs, vertical, iv) ==
    IF n > Len(listed) THEN << >>
    ELSE (IF ContainsValue(iv, rs[listed[n]][IF vertical THEN 1 ELSE 2])
          THEN <<listed[n]>> ELSE << >>)
            \o BucketOf(listed, n + 1, rs, vertical, iv)

\* for (p, round_idx) in bucket.drain(..).enumerate(), from the p-th on: the
\* round is moved and its index pushed to the list of its new row or column.
RECURSIVE DrainBucket(_, _, _, _, _, _)
DrainBucket(d2, bucket, p, iv, vertical, to_start) ==
    IF p > Len(bucket) THEN d2
    ELSE LET round_idx == bucket[p]
             slot == Slot(iv, p - 1, to_start)
             moved == [d2 EXCEPT !.rounds[round_idx] =
                            IF vertical THEN <<slot, @[2]>> ELSE <<@[1], slot>>]
             pushed == IF vertical
                       THEN [moved EXCEPT !.rounds_in_rows[slot + 1] = Append(@, round_idx)]
                       ELSE [moved EXCEPT !.rounds_in_cols[slot + 1] = Append(@, round_idx)]
         IN  DrainBucket(pushed, bucket, p + 1, iv, vertical, to_start)

\* for (interval_idx, bucket) in buckets.iter_mut().enumerate(), from the
\* k-th on.
RECURSIVE DrainBuckets(_, _, _, _, _, _)
DrainBuckets(d2, filled, k, ivs, vertical, to_start) ==
    IF k > Len(ivs) THEN d2
    ELSE DrainBuckets(DrainBucket(d2, filled[k], 1, ivs[k], vertical, to_start),
                      filled, k + 1, ivs, vertical, to_start)

\* The body of the outer loop of a tilt for one column or row.
TiltLine(d2, grid, line, vertical, to_start) ==
    LET ivs == LineIntervals(grid, line, vertical)
        listed == IF vertical THEN d2.rounds_in_cols[line + 1] ELSE d2.rounds_in_rows[line + 1]
        filled == [k \in 1..Len(ivs) |-> BucketOf(listed, 1, d2.rounds, vertical, ivs[k])]
        drained == IF vertical
                   THEN [d2 EXCEPT !.rounds_in_cols[line + 1] = << >>]
                   ELSE [d2 EXCEPT !.rounds_in_rows[line + 1] = << >>]
    IN  DrainBuckets(drained, filled, 1, ivs, vertical, to_start)

RECURSIVE TiltLines(_, _, _, _, _)
TiltLines(d2, grid, line, vertical, to_start) ==
    IF line >= (IF vertical THEN grid.width ELSE grid.height) THEN d2
    ELSE TiltLines(TiltLine(d2, grid, line, vertical, to_start),
                   grid, line + 1, vertical, to_start)

\* Dish2::tilt_north, tilt_south, tilt_west and tilt_east
Dish2TiltNorth(d2, grid) == TiltLines(d2, grid, 0, TRUE, TRUE)
Dish2TiltSouth(d2, grid) == TiltLines(d2, grid, 0, TRUE, FALSE)
Dish2TiltWest(d2, grid) == TiltLines(d2, grid, 0, FALSE, TRUE)
Dish2TiltEast(d2, grid) == TiltLines(d2, grid, 0, FALSE, FALSE)

\* Dish2::total_load: the rounds from the n-th on
RECURSIVE Dish2Load(_, _, _)
Dish2Load(grid, rs, n) ==
    IF n > Len(rs) THEN 0 ELSE (grid.height - rs[n][1]) + Dish2Load(grid, rs, n + 1)

IdleDish2 ==
    /\ dish2_grid = [height |-> 0, width |-> 0, cubes |-> {}, rounds |-> {}]
    /\ dish2 = [rounds |-> << >>, rounds_in_rows |-> << >>, rounds_in_cols |-> << >>]
    /\ dish_calls = << >>
    /\ d2pc = "idle"
    /\ spin_idx = 0
    /\ spin_loads = << >>
    /\ spin_cache = << >>
    /\ last_tilt = "none"
    /\ tilt_from = << >>
    /\ tilt_to = [rounds |-> << >>, rounds_in_rows |-> << >>, rounds_in_cols |-> << >>]

\* Problem::instance: from_str has parsed the grid.
InitDish2 ==
    /\ dish2_grid \in Dishes
    /\ dish2 = Dish2FromStr(dish2_grid)
    /\ dish_calls = << >>
    /\ d2pc = "ready"
    /\ spin_idx = 0
    /\ spin_loads = << >>
    /\ spin_cache = << >>
    /\ last_tilt = "none"
    /\ tilt_from = << >>
    /\ tilt_to = dish2

\* part_one: a clone of self.dish2 is tilted north and its load returned.
PartOneCall ==
    /\ d2pc = "ready"
    /\ Len(dish_calls) < MaxCalls
    /\ LET dish_clone == Dish2TiltNorth(dish2, dish2_grid)
       IN  /\ tilt_to' = dish_clone
           /\ dish_calls' = Append(dish_calls,
                                   [part |-> 1, value |-> Dish2Load(dish2_grid, dish_clone.rounds, 1)])
    /\ tilt_from' = dish2.rounds
    /\ last_tilt' = "north"
    /\ UNCHANGED <<dish2_grid, dish2, d2pc, spin_idx, spin_loads, spin_cache>>
    /\ UNCHANGED notDish2

\* part_two enters self.dish2.cycle(1_000_000_000): cache and loads are new.
PartTwoCall ==
    /\ d2pc = "ready"
    /\ Len(dish_calls) < MaxCalls
    /\ d2pc' = "north"
    /\ spin_idx' = 0
    /\ spin_loads' = << >>
    /\ spin_cache' = << >>
    /\ UNCHANGED <<dish2_grid, dish2, dish_calls, last_tilt, tilt_from, tilt_to>>
    /\ UNCHANGED notDish2

\* self.tilt_north(&mut buckets) of the loop of cycle
SpinNorth ==
    /\ d2pc = "north"
    /\ spin_idx < MaxSpins
    /\ dish2' = Dish2TiltNorth(dish2, dish2_grid)
    /\ tilt_from' = dish2.rounds
    /\ tilt_to' = dish2'
    /\ last_tilt' = "north"
    /\ d2pc' = "west"
    /\ UNCHANGED <<dish2_grid, dish_calls, spin_idx, spin_loads, spin_cache>>
    /\ UNCHANGED notDish2

\* self.tilt_west(&mut buckets)
SpinWest ==
    /\ d2pc = "west"
    /\ dish2' = Dish2TiltWest(dish2, dish2_grid)
    /\ tilt_from' = dish2.rounds
    /\ tilt_to' = dish2'
    /\ last_tilt' = "west"
    /\ d2pc' = "south"
    /\ UNCHANGED <<dish2_grid, dish_calls, spin_idx, spin_loads, spin_cache>>
    /\ UNCHANGED notDish2

\* self.tilt_south(&mut buckets)
SpinSouth ==
    /\ d2pc = "south"
    /\ dish2' = Dish2TiltSouth(dish2, dish2_grid)
    /\ tilt_from' = dish2.rounds
    /\ tilt_to' = dish2'
    /\ last_tilt' = "south"
    /\ d2pc' = "east"
    /\ UNCHANGED <<dish2_grid, dish_calls, spin_idx, spin_loads, spin_cache>>
    /\ UNCHANGED notDish2

\* self.tilt_east(&mut buckets)
SpinEast ==
    /\ d2pc = "east"
    /\ dish2' = Dish2TiltEast(dish2, dish2_grid)
    /\ tilt_from' = dish2.rounds
    /\ tilt_to' = dish2'
    /\ last_tilt' = "east"
    /\ d2pc' = "check"
    /\ UNCHANGED <<dish2_grid, dish_calls, spin_idx, spin_loads, spin_cache>>
    /\ UNCHANGED notDish2

\* The rest of the loop body: the load, the key of the last loads, the cache
\* entry, and the early return of part_two or loads.push(load).  The loop
\* does not come to its end in the passes followed here.
SpinCheck ==
    /\ d2pc = "check"
    /\ LET load == Dish2Load(dish2_grid, dish2.rounds, 1)
           key == KeyOf(spin_loads)
           e == IF key \in DOMAIN spin_cache THEN spin_cache[key] ELSE spin_idx
           period == spin_idx - e
           rem == (CycleCount - spin_idx) % period
       IN  IF spin_idx > 4
           THEN /\ spin_cache' = [k \in DOMAIN spin_cache \cup {key} |->
                                    IF k \in DOMAIN spin_cache THEN spin_cache[k] ELSE spin_idx]
                /\ IF e # spin_idx /\ CycleCount % period = spin_idx % period
                   THEN /\ dish_calls' = Append(dish_calls,
                                                [part |-> 2, value |-> spin_loads[(e + rem - 1) + 1]])
                        /\ d2pc' = "ready"
                        /\ UNCHANGED <<spin_loads, spin_idx>>
                   ELSE /\ spin_loads' = Append(spin_loads, load)
                        /\ spin_idx' = spin_idx + 1
                        /\ d2pc' = "north"
                        /\ UNCHANGED dish_calls
           ELSE /\ spin_loads' = Append(spin_loads, load)
                /\ spin_idx' = spin_idx + 1
                /\ d2pc' = "north"
                /\ UNCHANGED <<spin_cache, dish_calls>>
    /\ UNCHANGED <<dish2_grid, dish2, last_tilt, tilt_from, tilt_to>>
    /\ UNCHANGED notDish2

NextDish2 ==
    \/ PartOneCall
    \/ PartTwoCall
    \/ SpinNorth
    \/ SpinWest
    \/ SpinSouth
    \/ SpinEast
    \/ SpinCheck

(***************************************************************************)
(* The specifications: each runs one part of the program from its initial  *)
(* states while the other parts stay idle.                                 *)
(***************************************************************************)

InitSpecDay20 == InitDay20 /\ IdleCli /\ IdleThreads /\ IdleDay19 /\ IdleDay14 /\ IdleDay23 /\ IdleDay8 /\ IdleDay15 /\ IdleDay16 /\ IdleDay5 /\ IdleDay10 /\ IdleDay22 /\ IdleDay12 /\ IdleDay7 /\ IdleDay17 /\ IdleDay18 /\ IdleDay13 /\ IdleDay6 /\ IdleSolution /\ IdleDish2

SpecDay20 == InitSpecDay20 /\ [][NextDay20]_vars

InitSpecDay20Until == InitDay20Until /\ IdleCli /\ IdleThreads /\ IdleDay19 /\ IdleDay14 /\ IdleDay23 /\ IdleDay8 /\ IdleDay15 /\ IdleDay16 /\ IdleDay5 /\ IdleDay10 /\ IdleDay22 /\ IdleDay12 /\ IdleDay7 /\ IdleDay17 /\ IdleDay18 /\ IdleDay13 /\ IdleDay6 /\ IdleSolution /\ IdleDish2

SpecDay20Until == InitSpecDay20Until /\ [][NextDay20Until]_vars

InitSpecThreads == InitThreads /\ IdleCli /\ IdleDay20 /\ IdleDay19 /\ IdleDay14 /\ IdleDay23 /\ IdleDay8 /\ IdleDay15 /\ IdleDay16 /\ IdleDay5 /\ IdleDay10 /\ IdleDay22 /\ IdleDay12 /\ IdleDay7 /\ IdleDay17 /\ IdleDay18 /\ IdleDay13 /\ IdleDay6 /\ IdleSolution /\ IdleDish2

SpecThreads == InitSpecThreads /\ [][NextThreads]_vars

InitSpecDay19 == InitDay19 /\ IdleCli /\ IdleDay20 /\ IdleThreads /\ IdleDay14 /\ IdleDay23 /\ IdleDay8 /\ IdleDay15 /\ IdleDay16 /\ IdleDay5 /\ IdleDay10 /\ IdleDay22 /\ IdleDay12 /\ IdleDay7 /\ IdleDay17 /\ IdleDay18 /\ IdleDay13 /\ IdleDay6 /\ IdleSolution /\ IdleDish2

SpecDay19 == InitSpecDay19 /\ [][NextDay19]_vars

InitSpecDay14 == InitDay14 /\ IdleCli /\ IdleDay20 /\ IdleThreads /\ IdleDay19 /\ IdleDay23 /\ IdleDay8 /\ IdleDay15 /\ IdleDay16 /\ IdleDay5 /\ IdleDay10 /\ IdleDay22 /\ IdleDay12 /\ IdleDay7 /\ IdleDay17 /\ IdleDay18 /\ IdleDay13 /\ IdleDay6 /\ IdleSolution /\ IdleDish2

SpecDay14 == InitSpecDay14 /\ [][NextDay14]_vars

InitSpecDay23 == InitDay23 /\ IdleCli /\ IdleDay20 /\ IdleThreads /\ IdleDay19 /\ IdleDay14 /\ IdleDay8 /\ IdleDay15 /\ IdleDay16 /\ IdleDay5 /\ IdleDay10 /\ IdleDay22 /\ IdleDay12 /\ IdleDay7 /\ IdleDay17 /\ IdleDay18 /\ IdleDay13 /\ IdleDay6 /\ IdleSolution /\ IdleDish2

SpecDay23 == InitSpecDay23 /\ [][NextDay23]_vars

InitSpecDay8 == InitDay8 /\ IdleCli /\ IdleDay20 /\ IdleThreads /\ IdleDay19 /\ IdleDay14 /\ IdleDay23 /\ IdleDay15 /\ IdleDay16 /\ IdleDay5 /\ IdleDay10 /\ IdleDay22 /\ IdleDay12 /\ IdleDay7 /\ IdleDay17 /\ IdleDay18 /\ IdleDay13 /\ IdleDay6 /\ IdleSolution /\ IdleDish2

SpecDay8 == InitSpecDay8 /\ [][NextDay8]_vars

InitSpecDay15 == InitDay15 /\ IdleCli /\ IdleDay20 /\ IdleThreads /\ IdleDay19 /\ IdleDay14 /\ IdleDay23 /\ IdleDay8 /\ IdleDay16 /\ IdleDay5 /\ IdleDay10 /\ IdleDay22 /\ IdleDay12 /\ IdleDay7 /\ IdleDay17 /\ IdleDay18 /\ IdleDay13 /\ IdleDay6 /\ IdleSolution /\ IdleDish2

SpecDay15 == InitSpecDay15 /\ [][NextDay15]_vars

InitSpecDay16 == InitDay16 /\ IdleCli /\ IdleDay20 /\ IdleThreads /\ IdleDay19 /\ IdleDay14 /\ IdleDay23 /\ IdleDay8 /\ IdleDay15 /\ IdleDay5 /\ IdleDay10 /\ IdleDay22 /\ IdleDay12 /\ IdleDay7 /\ IdleDay17 /\ IdleDay18 /\ IdleDay13 /\ IdleDay6 /\ IdleSolution /\ IdleDish2

SpecDay16 == InitSpecDay16 /\ [][NextDay16]_vars

InitSpecDay5 == InitDay5 /\ IdleCli /\ IdleDay20 /\ IdleThreads /\ IdleDay19 /\ IdleDay14 /\ IdleDay23 /\ IdleDay8 /\ IdleDay15 /\ IdleDay16 /\ IdleDay10 /\ IdleDay22 /\ IdleDay12 /\ IdleDay7 /\ IdleDay17 /\ IdleDay18 /\ IdleDay13 /\ IdleDay6 /\ IdleSolution /\ IdleDish2

SpecDay5 == InitSpecDay5 /\ [][NextDay5]_vars

InitSpecDay10 == InitDay10 /\ IdleCli /\ IdleDay20 /\ IdleThreads /\ IdleDay19 /\ IdleDay14 /\ IdleDay23 /\ IdleDay8 /\ IdleDay15 /\ IdleDay16 /\ IdleDay5 /\ IdleDay22 /\ IdleDay12 /\ IdleDay7 /\ IdleDay17 /\ IdleDay18 /\ IdleDay13 /\ IdleDay6 /\ IdleSolution /\ IdleDish2

SpecDay10 == InitSpecDay10 /\ [][NextDay10]_vars

InitSpecDay22 == InitDay22 /\ IdleCli /\ IdleDay20 /\ IdleThreads /\ IdleDay19 /\ IdleDay14 /\ IdleDay23 /\ IdleDay8 /\ IdleDay15 /\ IdleDay16 /\ IdleDay5 /\ IdleDay10 /\ IdleDay12 /\ IdleDay7 /\ IdleDay17 /\ IdleDay18 /\ IdleDay13 /\ IdleDay6 /\ IdleSolution /\ IdleDish2

SpecDay22 == InitSpecDay22 /\ [][NextDay22]_vars

InitSpecDay12 == InitDay12 /\ IdleCli /\ IdleDay20 /\ IdleThreads /\ IdleDay19 /\ IdleDay14 /\ IdleDay23 /\ IdleDay8 /\ IdleDay15 /\ IdleDay16 /\ IdleDay5 /\ IdleDay10 /\ IdleDay22 /\ IdleDay7 /\ IdleDay17 /\ IdleDay18 /\ IdleDay13 /\ IdleDay6 /\ IdleSolution /\ IdleDish2

SpecDay12 == InitSpecDay12 /\ [][NextDay12]_vars

InitSpecDay7 == InitDay7 /\ IdleCli /\ IdleDay20 /\ IdleThreads /\ IdleDay19 /\ IdleDay14 /\ IdleDay23 /\ IdleDay8 /\ IdleDay15 /\ IdleDay16 /\ IdleDay5 /\ IdleDay10 /\ IdleDay22 /\ IdleDay12 /\ IdleDay17 /\ IdleDay18 /\ IdleDay13 /\ IdleDay6 /\ IdleSolution /\ IdleDish2

SpecDay7 == InitSpecDay7 /\ [][NextDay7]_vars

InitSpecDay17 == InitDay17 /\ IdleCli /\ IdleDay20 /\ IdleThreads /\ IdleDay19 /\ IdleDay14 /\ IdleDay23 /\ IdleDay8 /\ IdleDay15 /\ IdleDay16 /\ IdleDay5 /\ IdleDay10 /\ IdleDay22 /\ IdleDay12 /\ IdleDay7 /\ IdleDay18 /\ IdleDay13 /\ IdleDay6 /\ IdleSolution /\ IdleDish2

SpecDay17 == InitSpecDay17 /\ [][NextDay17]_vars

InitSpecDay18 == InitDay18 /\ IdleCli /\ IdleDay20 /\ IdleThreads /\ IdleDay19 /\ IdleDay14 /\ IdleDay23 /\ IdleDay8 /\ IdleDay15 /\ IdleDay16 /\ IdleDay5 /\ IdleDay10 /\ IdleDay22 /\ IdleDay12 /\ IdleDay7 /\ IdleDay17 /\ IdleDay13 /\ IdleDay6 /\ IdleSolution /\ IdleDish2

SpecDay18 == InitSpecDay18 /\ [][NextDay18]_vars

InitSpecDay13 == InitDay13 /\ IdleCli /\ IdleDay20 /\ IdleThreads /\ IdleDay19 /\ IdleDay14 /\ IdleDay23 /\ IdleDay8 /\ IdleDay15 /\ IdleDay16 /\ IdleDay5 /\ IdleDay10 /\ IdleDay22 /\ IdleDay12 /\ IdleDay7 /\ IdleDay17 /\ IdleDay18 /\ IdleDay6 /\ IdleSolution /\ IdleDish2

SpecDay13 == InitSpecDay13 /\ [][NextDay13]_vars

InitSpecDay6 == InitDay6 /\ IdleCli /\ IdleDay20 /\ IdleThreads /\ IdleDay19 /\ IdleDay14 /\ IdleDay23 /\ IdleDay8 /\ IdleDay15 /\ IdleDay16 /\ IdleDay5 /\ IdleDay10 /\ IdleDay22 /\ IdleDay12 /\ IdleDay7 /\ IdleDay17 /\ IdleDay18 /\ IdleDay13 /\ IdleSolution /\ IdleDish2

SpecDay6 == InitSpecDay6 /\ [][NextDay6]_vars

InitSpecSolution == InitSolution /\ IdleCli /\ IdleDay20 /\ IdleThreads /\ IdleDay19 /\ IdleDay14 /\ IdleDay23 /\ IdleDay8 /\ IdleDay15 /\ IdleDay16 /\ IdleDay5 /\ IdleDay10 /\ IdleDay22 /\ IdleDay12 /\ IdleDay7 /\ IdleDay17 /\ IdleDay18 /\ IdleDay13 /\ IdleDay6 /\ IdleDish2

SpecSolution == InitSpecSolution /\ [][NextSolution]_vars

InitSpecDish2 == InitDish2 /\ IdleCli /\ IdleDay20 /\ IdleThreads /\ IdleDay19 /\ IdleDay14 /\ IdleDay23 /\ IdleDay8 /\ IdleDay15 /\ IdleDay16 /\ IdleDay5 /\ IdleDay10 /\ IdleDay22 /\ IdleDay12 /\ IdleDay7 /\ IdleDay17 /\ IdleDay18 /\ IdleDay13 /\ IdleDay6 /\ IdleSolution

SpecDish2 == InitSpecDish2 /\ [][NextDish2]_vars

Init == InitCli /\ IdleDay20 /\ IdleThreads /\ IdleDay19 /\ IdleDay14 /\ IdleDay23 /\ IdleDay8 /\ IdleDay15 /\ IdleDay16 /\ IdleDay5 /\ IdleDay10 /\ IdleDay22 /\ IdleDay12 /\ IdleDay7 /\ IdleDay17 /\ IdleDay18 /\ IdleDay13 /\ IdleDay6 /\ IdleSolution /\ IdleDish2

Next == NextCli

Spec == Init /\ [][Next]_vars

(***************************************************************************)
(* Properties of the solve pipeline and the dispatcher (under Spec)        *)
(***************************************************************************)

SolveOrder == <<"instance", "part_one", "part_two">>

\* solve returned Err: the first method that did not return Ok returned Err.
SolveReturnsErr ==
    \/ behav.parse = "err"
    \/ behav.parse = "ok" /\ behav.p1 = "err"
    \/ behav.parse = "ok" /\ behav.p1 = "ok" /\ behav.p2 = "err"

IsErr(r) == r \in {"Err: Could not read input file", "Err: Failed to solve"}

Registered(day) == \E i \in 1..Len(Table) : Table[i][2] = day

\* C1: Problem::solve builds exactly one instance, then calls part_one and
\* then part_two on that instance, in that order; the parts are not run when
\* parsing fails, part_two is not run when part_one fails, and what solve
\* returns is Solution(part_one's result, part_two's result).
C1_SolveComposes ==
    /\ Len(calls) <= 3
    /\ inst <= 1
    /\ \A i \in 1..Len(calls) : calls[i] = <<SolveOrder[i], target, 1>>
    /\ Len(calls) >= 2 => behav.parse = "ok"
    /\ Len(calls) = 3 => behav.p1 = "ok"
    /\ pc = "print" =>
          /\ Len(calls) = 3
          /\ Solution(partial[1], partial[2])
                = Solution(PartValue(target, 1), PartValue(target, 2))

\* C1 witness: solve has returned a Solution after its three calls.
C1_Witness ==
    pc = "print" /\ Len(calls) = 3 /\ Len(partial) = 2

\* C3: _run returns "Could not read input file" without invoking the solver
\* when the file cannot be read, and "Failed to solve" when solve returns an
\* error; in both cases nothing is printed, also when part one succeeded; on
\* success exactly one result, the solution, is printed.
C3_RunErrors ==
    /\ (pc = "done" /\ fileRead /\ ~fileOk) =>
          result = "Err: Could not read input file" /\ calls = <<>> /\ stdout = <<>>
    /\ ~fileOk => calls = <<>>
    /\ (pc = "done" /\ fileRead /\ fileOk /\ SolveReturnsErr) =>
          result = "Err: Failed to solve" /\ stdout = <<>>
    /\ IsErr(result) => stdout = <<>>
    /\ (pc = "done" /\ target # "none" /\ result = "Ok") =>
          stdout = << Render(cmd.json, Solution(PartValue(target, 1), PartValue(target, 2))) >>
    /\ (target # "none" /\ result # "Ok") => stdout = <<>>

\* C3 witness: part one succeeded, part two failed, and _run has returned.
C3_Witness ==
    /\ pc = "done" /\ result = "Err: Failed to solve"
    /\ behav.p1 = "ok" /\ Len(partial) = 1 /\ stdout = <<>>

\* C4: `run <day>` with a day that is not in the table prints `not implemented`
\* (the JSON string with the json flag) and returns Ok, without reading the
\* input file and without invoking a solver.
C4_NotImplemented ==
    (cmd.kind = "run" /\ ~Registered(cmd.day) /\ pc # "start") =>
        /\ pc = "done"
        /\ result = "Ok"
        /\ stdout = << IF cmd.json
                       THEN [fmt |-> "json", body |-> <<"\"not implemented\"">>]
                       ELSE [fmt |-> "text", body |-> <<"not implemented">>] >>
        /\ ~fileRead
        /\ calls = <<>>
        /\ target = "none"

\* C4 witness: `run 0 <input> --json` has printed and returned.
C4_Witness ==
    cmd.kind = "run" /\ cmd.day = 0 /\ cmd.json /\ pc = "done" /\ Len(stdout) = 1

\* C5: for every day d in 1..=25 whose solver declares Problem::DAY = d,
\* `run d <input>` routes to that solver and never to the `not implemented`
\* arm.
C5_EveryDeclaredDayRoutes ==
    (cmd.kind = "run" /\ pc # "start" /\ \E s \in Solvers : DAY[s] = cmd.day) =>
        /\ target \in Solvers
        /\ DAY[target] = cmd.day

(***************************************************************************)
(* Properties of day 20, part one (under SpecDay20)                        *)
(***************************************************************************)

CountOf(q, level) == Cardinality({ i \in 1..Len(q) : q[i][3] = level })

Feeders(ms, m) == { k \in DOMAIN ms : m \in SeqRange(ms[k].destinations) }

\* C7: every button press ends: the pulse queue becomes empty after finitely
\* many deliveries.  The loop is deterministic in the modules' state and the
\* queue, so a press that ends never takes a delivery that leaves both as
\* they were: from there the same delivery repeats forever.
C7_EveryPressEnds ==
    [][ (d20pc = "p1" /\ pulses # <<>>) => <<mods, pulses>>' # <<mods, pulses>> ]_vars

\* The rules of C8, stated on one step of push_button.
C8_Rule ==
    IF pulses = <<>>
    THEN presses' = presses + 1 =>
            pulses' = << <<"button", "broadcaster", "Low">> >> /\ mods' = mods
    ELSE LET o == Head(pulses)[1]
             d == Head(pulses)[2]
             v == Head(pulses)[3]
             Sends(level) ==
                [i \in 1..Len(mods[d].destinations) |-> <<d, mods[d].destinations[i], level>>]
         IN  /\ delivered' = Append(delivered, Head(pulses))
             /\ IF d \notin DOMAIN mods
                THEN mods' = mods /\ pulses' = Tail(pulses)
                ELSE CASE mods[d].kind = "FlipFlop" ->
                            IF v = "High"
                            THEN mods' = mods /\ pulses' = Tail(pulses)
                            ELSE /\ mods' = [mods EXCEPT ![d].state = ~mods[d].state]
                                 /\ pulses' = Tail(pulses) \o
                                        Sends(IF mods'[d].state THEN "High" ELSE "Low")
                       [] mods[d].kind = "Conjunction" ->
                            /\ mods'[d].inputs[o] = v
                            /\ \A k \in DOMAIN mods[d].inputs \ {o} :
                                    mods'[d].inputs[k] = mods[d].inputs[k]
                            /\ \A m \in DOMAIN mods \ {d} : mods'[m] = mods[m]
                            /\ pulses' = Tail(pulses) \o
                                    Sends(IF \A k \in DOMAIN mods'[d].inputs :
                                                mods'[d].inputs[k] = "High"
                                          THEN "Low" ELSE "High")
                       [] mods[d].kind = "Broadcast" ->
                            mods' = mods /\ pulses' = Tail(pulses) \o Sends(v)

\* The state part of C8: the counters count every pulse that is sent, pulses
\* leave the queue in the order they were sent, the call starts from the
\* initial state and returns low * high after exactly 1000 presses.
C8_Counts ==
    /\ sent = delivered \o pulses
    /\ low_pulses = poppedLow + CountOf(pulses, "Low")
    /\ high_pulses = poppedHigh + CountOf(pulses, "High")
    /\ \A m \in DOMAIN mods : DOMAIN mods[m].inputs =
            (IF mods[m].kind = "Conjunction" THEN Feeders(mods, m) ELSE {})
    /\ (d20pc = "p1" /\ presses = 0) =>
            \A m \in DOMAIN mods :
                /\ ~mods[m].state
                /\ \A k \in DOMAIN mods[m].inputs : mods[m].inputs[k] = "Low"
    /\ d20pc = "p1done" =>
            /\ presses = 1000
            /\ pulses = <<>>
            /\ d20result = poppedLow * poppedHigh
            /\ poppedLow >= 1000
    /\ (d20pc = "p1done" /\ DOMAIN mods = DOMAIN ExampleNet) => d20result = 32000000

\* C8: part one returns L*H, the numbers of low and high pulses sent during
\* exactly 1000 button presses from the initial state, the button's pulses
\* and pulses to unknown modules counted, pulses delivered in the order they
\* were sent, flip-flops, conjunctions and the broadcaster acting by the
\* rules of C8_Rule.
C8_PartOne == []C8_Counts /\ [][d20pc = "p1" => C8_Rule]_vars

\* C8 witness: push_button has returned 32000000 on the network of
\* tests::example.
C8_Witness ==
    /\ d20pc = "p1done"
    /\ DOMAIN mods = DOMAIN ExampleNet
    /\ d20result = 32000000
    /\ poppedLow = 8000 /\ poppedHigh = 4000

(***************************************************************************)
(* Properties of day 20, part two (under SpecDay20Until)                   *)
(***************************************************************************)

RECURSIVE Gcd(_, _)
Gcd(a, b) == IF b = 0 THEN a ELSE Gcd(b, a % b)

Lcm(a, b) == (a * b) \div Gcd(a, b)

RECURSIVE LcmOver(_, _)
LcmOver(f, keys) ==
    IF keys = {} THEN 1
    ELSE LET k == CHOOSE x \in keys : TRUE
         IN  Lcm(f[k], LcmOver(f, keys \ {k}))

\* C2: a failure while solving is returned as an Err and the solver never
\* aborts in another way; here for day 20's part_two, which must not panic
\* on a parsed network, such as one in which no module lists rx.
C2_FailuresAreErr ==
    d20pc # "p2panic"

\* C6: when push_button_until returns from the cycle markers, it returns the
\* least common multiple of the cycle lengths of the inputs of the conjunction
\* feeding rx, the cycle length of an input being the number, from 1, of the
\* button press during which it first sent High to the conjunction.
C6_ReturnsLcm ==
    d20pc = "p2done" =>
        /\ DOMAIN mods[cck].inputs \subseteq DOMAIN firstHigh
        /\ d20result = LcmOver(firstHigh, DOMAIN mods[cck].inputs)

(***************************************************************************)
(* Properties of the threaded from_str of days 17 and 23 (SpecThreads)     *)
(***************************************************************************)

\* C9: in every execution the parent has joined both threads when from_str
\* returns; an Ok holds the values the two computations give when run one
\* after the other, whatever the interleaving; a panic in either thread
\* makes from_str return Err.
C9_JoinsBoth ==
    ppc = "returned" =>
        /\ joined = {1, 2}
        /\ fsResult = "Ok" =>
                got = << Sequential(1, thrInput.grid, GridLen),
                         Sequential(2, thrInput.grid, GridLen) >>
        /\ thrInput.panics # {} => fsResult = "Err"

(***************************************************************************)
(* Properties of day 19's combo_accepted (SpecDay19)                       *)
(***************************************************************************)

Parts == [Keys -> 1..MaxRating]

\* C10: combo_accepted returns exactly the number of rating tuples that
\* the part-one evaluation, followed from workflow `in`, accepts.
C10_ComboCountsAccepted ==
    d19pc = "done" =>
        d19result = Cardinality({part \in Parts : Evaluate(workflows, "in", part) = "A"})

(***************************************************************************)
(* Properties of day 14's Dish2::cycle (SpecDay14)                         *)
(***************************************************************************)

RECURSIVE SpinCycles(_, _, _)
\* The rounds after n spin cycles, every one of them simulated.
SpinCycles(d, rs, n) == IF n = 0 THEN rs ELSE SpinCycles(d, SpinCycle(d, rs), n - 1)

\* C11: cycle(count) returns the total load after exactly `count` spin
\* cycles, also when the shortcut on repeating loads fires.
C11_CycleLoad ==
    d14pc = "done" =>
        d14result = total_load(dish, SpinCycles(dish, startRounds, cycleCount))

(***************************************************************************)
(* Properties of day 23's longest_distance (SpecDay23)                     *)
(***************************************************************************)

RECURSIVE LongestSimplePath(_, _, _)
\* The greatest total length of a simple path from a node to the end that
\* avoids the nodes of `seen`; -1 if there is none.
LongestSimplePath(g, from, seen) ==
    IF from = 1 THEN 0
    ELSE LET nbs == g[from].neighbors
             tails == { <<k, LongestSimplePath(g, nbs[k][1], seen \cup {nbs[k][1]})>> :
                          k \in { k \in 1..Len(nbs) : nbs[k][1] \notin seen } }
             sums == { nbs[t[1]][2] + t[2] : t \in { t \in tails : t[2] >= 0 } }
         IN  IF sums = {} THEN -1 ELSE CHOOSE s \in sums : \A o \in sums : o <= s

\* C12: longest_distance returns the greatest total length over all simple
\* paths from the start node to the end node of the junction graph.
C12_LongestWalk ==
    d23pc = "done" => d23result = LongestSimplePath(graph, 0, {0})

(***************************************************************************)
(* Properties of day 8's ghost_steps_from (SpecDay8)                       *)
(***************************************************************************)

\* C13: ghost_steps_from returns the least common multiple of the counts
\* get_first_instance gives for the nodes ending in A.
C13_GhostLcm ==
    d8pc = "done" =>
        d8result = LcmOver([k \in EndsWithA |->
                                FirstInstance(instructions, mapping,
                                    [cur |-> k, count |-> 0, found |-> FALSE], MaxSteps)],
                           EndsWithA)

(***************************************************************************)
(* Properties of day 15's from_str (SpecDay15)                             *)
(***************************************************************************)

\* The reference lens procedure, read off the whole list of steps: a label is
\* in its box iff its last step is an assignment; its focal length is that of
\* its last assignment; the lenses of a box stand in the order of the first
\* assignment after the label's last removal.
LastStepOf(steps, label) ==
    LET at == { i \in 1..Len(steps) : steps[i].label = label }
    IN  IF at = {} THEN 0 ELSE CHOOSE i \in at : \A j \in at : j <= i

PutInAt(steps, label) ==
    LET removed == { i \in 1..Len(steps) : steps[i].label = label /\ steps[i].op = "Remove" }
        from == IF removed = {} THEN 0 ELSE CHOOSE i \in removed : \A j \in removed : j <= i
        put == { i \in (from + 1)..Len(steps) : steps[i].label = label }
    IN  CHOOSE i \in put : \A j \in put : i <= j

LensesIn(steps, box) ==
    { label \in Labels :
        /\ HASH(label) = box
        /\ LastStepOf(steps, label) # 0
        /\ steps[LastStepOf(steps, label)].op = "Assign" }

ReferenceBox(steps, box, values) ==
    /\ { values[i].label : i \in 1..Len(values) } = LensesIn(steps, box)
    /\ Len(values) = Cardinality(LensesIn(steps, box))
    /\ \A i \in 1..Len(values) :
            values[i].focal = steps[LastStepOf(steps, values[i].label)].focal
    /\ \A i, j \in 1..Len(values) :
            i < j => PutInAt(steps, values[i].label) < PutInAt(steps, values[j].label)

RECURSIVE SumOver(_, _)
SumOver(f, S) ==
    IF S = {} THEN 0
    ELSE LET x == CHOOSE y \in S : TRUE IN f[x] + SumOver(f, S \ {x})

\* The boxes the labels hash to, and the slots of the lenses in them.
LabelBoxes == { HASH(label) : label \in Labels }

LensSlots ==
    { <<box, i>> \in LabelBoxes \X (1..Cardinality(Labels)) : i <= Len(buckets[box]) }

BeamSuccessors(lava, particle) ==
    LET tile == lava.tiles[particle.location.row][particle.location.col]
        facings ==
            IF Splits(tile, particle.facing)
            THEN {OtherFacing(tile), Deflect(tile, particle.facing)}
            ELSE {Deflect(tile, particle.facing)}
    IN  { [location |-> StepFrom(particle.location, facing), facing |-> facing] :
            facing \in { face \in facings :
                            OnGrid(lava, StepFrom(particle.location, face)) } }

\* One step of the full simulation from every state of a set, the set kept.
SimulationStep(lava, states) ==
    states \cup UNION { BeamSuccessors(lava, particle) : particle \in states }

RECURSIVE FullSimulation(_, _, _)
\* The (location, direction) states of the beam after at most n steps of the
\* simulation that drops a beam only in a state it has been in.
FullSimulation(lava, states, n) ==
    IF n <= 1 THEN SimulationStep(lava, states)
    ELSE LET half == FullSimulation(lava, states, n \div 2)
         IN  IF SimulationStep(lava, half) = half THEN half
             ELSE FullSimulation(lava, half, n - n \div 2)

\* The tiles the full simulation visits from a starting particle: no beam
\* has more states than 4 * height * width.
TilesVisited(lava, particle) ==
    { <<state.location.row, state.location.col>> :
        state \in FullSimulation(lava, {particle}, 4 * lava.height * lava.width) }

MaxVisited(lava) ==
    LET counts == { Cardinality(TilesVisited(lava, StartingParticles(lava)[i])) :
                        i \in 1..Len(StartingParticles(lava)) }
    IN  IF counts = {} THEN 0
        ELSE CHOOSE most \in counts : \A other \in counts : other <= most

\* C15: propagate terminates on every grid and returns exactly the tiles the
\* full simulation visits from its starting particle (the pruning on empty
\* tiles removes none), and part two is the largest number of tiles visited
\* over the particles entering at the edges.
C15_Propagate ==
    /\ d16pc # "panicked"
    /\ propagated # << >> =>
            propagated[Len(propagated)].energized
                = TilesVisited(lava_grid, propagated[Len(propagated)].start)
    /\ d16pc = "done" => d16result = MaxVisited(lava_grid)

(***************************************************************************)
(* Day 5: part two against the seeds taken one by one.                     *)
(***************************************************************************)

\* The seed numbers the (start, length) pairs contain.
SeedNumbers(numbers) ==
    UNION { numbers[2 * i - 1]..(numbers[2 * i - 1] + numbers[2 * i] - 1) :
                i \in 1..Len(numbers) \div 2 }

RECURSIVE Chained(_, _, _)
\* A number translated through the first n maps, as part one chains them.
Chained(maps, n, input) ==
    IF n = 0 THEN input
    ELSE RangeMapTranslate(maps[n], Chained(maps, n - 1, input))

\* The numbers a sequence of ranges holds.
NumbersIn(rs) == UNION { rs[i].start..rs[i].end : i \in 1..Len(rs) }

\* C16: part two returns the lowest location over the seeds of the seed
\* ranges taken one by one through the seven maps, and at every point of the
\* splitting the ranges hold exactly the values of those seeds: the ranges
\* still to split hold them as of the maps finished, the ranges already
\* handed on as of the current map.
C16_LowestOfRanges ==
    /\ (d5pc = "split" /\ map_idx < Len(range_maps)) =>
            { RangeMapTranslate(range_maps[map_idx + 1], v) : v \in NumbersIn(ranges) }
                    \cup NumbersIn(next_ranges)
                = { Chained(range_maps, map_idx + 1, seed) : seed \in SeedNumbers(seeds) }
    /\ (d5pc = "done" /\ SeedNumbers(seeds) # {}) =>
            /\ d5result \in { Chained(range_maps, NumMaps, seed) :
                                seed \in SeedNumbers(seeds) }
            /\ \A seed \in SeedNumbers(seeds) :
                    d5result <= Chained(range_maps, NumMaps, seed)

(***************************************************************************)
(* Day 10: the loop and what it encloses, read off the sketch.             *)
(***************************************************************************)

\* The cells of the loop the start lies on.
LoopCells == LoopFrom(sketch, {maze_start})

\* The tiles strictly enclosed by the loop: those off the loop with an odd
\* number of loop pipes to their west that run north.
EnclosedCells ==
    { cell \in { [row |-> r, col |-> c] :
                    r \in 0..sketch.height - 1, c \in 0..sketch.width - 1 } \ LoopCells :
        Cardinality({ pipe \in LoopCells :
                        /\ pipe.row = cell.row
                        /\ pipe.col < cell.col
                        /\ "North" \in Joins(TileAt(sketch, pipe)) }) % 2 = 1 }

\* C17: on every maze whose S lies on one simple closed loop, the walk ends
\* within the length of the loop, part one is half that length and part two
\* the number of tiles the loop strictly encloses, whichever neighbor of S
\* the walk starts on and whatever pipe lies under S.
C17_LoopAndInside ==
    /\ d10pc = "walk" => loop_steps <= Cardinality(LoopCells)
    /\ d10pc = "done" =>
            /\ loop_steps = Cardinality(LoopCells) \div 2
            /\ num_inside = Cardinality(EnclosedCells)

(***************************************************************************)
(* Day 22: the settled bricks and the chain reactions, read off the        *)
(* positions of the bricks.                                                *)
(***************************************************************************)

\* Whether two bricks stand over a common (x, y).
SharesColumn(a, b) ==
    /\ a.start.x <= b.end.x /\ b.start.x <= a.end.x
    /\ a.start.y <= b.end.y /\ b.start.y <= a.end.y

\* The bricks brick i rests on.
SupportersOf(bs, i) ==
    { j \in 1..Len(bs) \ {i} :
        SharesColumn(bs[j], bs[i]) /\ bs[j].end.z + 1 = bs[i].start.z }

RECURSIVE ChainReaction(_, _)
\* The bricks gone once the bricks of a set are: every brick off the ground
\* all of whose supporters are gone goes too.
ChainReaction(bs, gone) ==
    LET falling == { i \in 1..Len(bs) \ gone :
                        bs[i].start.z > 1 /\ SupportersOf(bs, i) \subseteq gone }
    IN  IF falling = {} THEN gone ELSE ChainReaction(bs, gone \cup falling)

RECURSIVE SumFallen(_, _)
SumFallen(bs, n) ==
    IF n = 0 THEN 0
    ELSE SumFallen(bs, n - 1) + Cardinality(ChainReaction(bs, {n})) - 1

\* C18: after settle every brick rests on the ground or on another brick and
\* no two share a cube, each brick over its own (x, y) and as tall as it was;
\* part one counts the bricks that are the only supporter of no brick, part
\* two sums over the bricks the other bricks that fall when it goes.
C18_Settled ==
    d22pc = "done" =>
        /\ \A i \in 1..Len(bricks) :
                /\ bricks[i].start.z = 1 \/ SupportersOf(bricks, i) # {}
                /\ bricks[i] = SetZ(snapshot[i], bricks[i].start.z)
        /\ \A i, j \in 1..Len(bricks) : i # j => ~Intersect(bricks[i], bricks[j])
        /\ slab_p1 = Cardinality({ i \in 1..Len(bricks) :
                        \A j \in 1..Len(bricks) : SupportersOf(bricks, j) # {i} })
        /\ slab_p2 = SumFallen(bricks, Len(bricks))

\* C18 witness: settle has returned for a snapshot in which a brick fell, a
\* brick rests on two others and the removal of some brick makes others fall.
C18_Witness ==
    /\ d22pc = "done"
    /\ slab_p2 > 0
    /\ \E i \in 1..Len(bricks) : bricks[i] # snapshot[i]
    /\ \E i \in 1..Len(bricks) : Cardinality(SupportersOf(bricks, i)) >= 2

(***************************************************************************)
(* Day 12: the arrangements counted one by one.                            *)
(***************************************************************************)

\* A record with `#` at the unknown positions of a set and `.` at the others.
Filled(record, damaged) ==
    [i \in 1..Len(record) |->
        IF record[i] = "?" THEN (IF i \in damaged THEN "#" ELSE ".") ELSE record[i]]

RECURSIVE RunsOf(_, _)
\* The lengths of the maximal runs of `#` in the first n springs of a record
\* without unknowns, left to right.
RunsOf(record, n) ==
    IF n = 0 THEN << >>
    ELSE LET before == RunsOf(record, n - 1)
         IN  IF record[n] # "#" THEN before
             ELSE IF n > 1 /\ record[n - 1] = "#"
                  THEN [before EXCEPT ![Len(before)] = @ + 1]
                  ELSE Append(before, 1)

\* The number of ways to replace the unknowns of a record so that its runs of
\* `#` are the groups.
Arrangements(record, group_sizes) ==
    Cardinality({ damaged \in SUBSET { i \in 1..Len(record) : record[i] = "?" } :
                    RunsOf(Filled(record, damaged), Len(record)) = group_sizes })

RECURSIVE Repeated(_, _, _)
\* n copies of a sequence with a separator between them.
Repeated(copy, separator, n) ==
    IF n = 0 THEN << >>
    ELSE IF n = 1 THEN copy
         ELSE copy \o separator \o Repeated(copy, separator, n - 1)

\* C19: fast_arrangements returns the number of ways to replace the unknown
\* springs so that the runs of damaged springs are the groups, and part two
\* calls it on five copies of the record joined by `?` with five copies of
\* the groups.
C19_Arrangements ==
    /\ d12pc # "idle" =>
            IF unfolded
            THEN /\ springs_input = Repeated(spring.key, <<"?">>, 5)
                 /\ springs_groups = Repeated(spring.groups, << >>, 5)
            ELSE springs_input = spring.key /\ springs_groups = spring.groups
    /\ d12pc = "done" => d12result = Arrangements(springs_input, springs_groups)

\* C19 witness: fast_arrangements has returned a count above one for an
\* unfolded record.
C19_Witness ==
    d12pc = "done" /\ unfolded /\ d12result > 1

(***************************************************************************)
(* Day 7: the kinds and the winnings, stated on the cards of the input.    *)
(***************************************************************************)

\* The standard type of five cards, from how many different cards there are
\* and how often the most frequent one occurs.
StandardType(five) ==
    LET different == {five[i] : i \in 1..HandSize}
        times == {Cardinality({i \in 1..HandSize : five[i] = card}) : card \in different}
        most == CHOOSE n \in times : \A m \in times : m <= n
    IN  CASE Cardinality(different) = 1 -> FiveOfAKind
          [] Cardinality(different) = 2 /\ most = 4 -> FourOfAKind
          [] Cardinality(different) = 2 /\ most = 3 -> FullHouse
          [] Cardinality(different) = 3 /\ most = 3 -> ThreeOfAKind
          [] Cardinality(different) = 3 /\ most = 2 -> TwoPair
          [] Cardinality(different) = 4 -> OnePair
          [] OTHER -> HighCard

\* The hands five cards become when each J is replaced by any card.
JackReplacements(five) ==
    { [i \in 1..HandSize |-> IF five[i] = "J" THEN replacement[i] ELSE five[i]] :
        replacement \in [{i \in 1..HandSize : five[i] = "J"} -> AllCards] }

\* The strongest type among them.
JokerType(five) ==
    LET types == {StandardType(replaced) : replaced \in JackReplacements(five)}
    IN  CHOOSE best \in types : \A type \in types : type <= best

\* The two types of every hand of the inputs.
InputTexts == UNION { {lines[i].text : i \in 1..Len(lines)} : lines \in CamelInputs }

StandardTypes == [five \in InputTexts |-> StandardType(five)]

JokerTypes == [five \in InputTexts |-> JokerType(five)]

\* The strength of a card: J between T and Q, or J weakest.
FaceStrength == <<"2", "3", "4", "5", "6", "7", "8", "9", "T", "J", "Q", "K", "A">>
JokerStrength == <<"J", "2", "3", "4", "5", "6", "7", "8", "9", "T", "Q", "K", "A">>

StrengthIn(strengths, card) == CHOOSE i \in 1..Len(strengths) : strengths[i] = card

\* What ranks a hand: its type, then the strength of its cards in order.
RankKey(type, five, strengths) ==
    <<type>> \o [i \in 1..HandSize |-> StrengthIn(strengths, five[i])]

PartOneKeys ==
    [i \in 1..Len(camel_input) |->
        RankKey(StandardTypes[camel_input[i].text], camel_input[i].text, FaceStrength)]

PartTwoKeys ==
    [i \in 1..Len(camel_input) |->
        RankKey(JokerTypes[camel_input[i].text], camel_input[i].text, JokerStrength)]

\* Key a is weaker than key b: the first place where they differ decides.
WeakerKey(a, b) ==
    \E i \in 1..Len(a) :
        /\ \A j \in 1..(i - 1) : a[j] = b[j]
        /\ a[i] < b[i]

\* The pairs <<i, j>> of lines of the input with line i weaker than line j.
WeakerPairs(keys) ==
    { pair \in (1..Len(camel_input)) \X (1..Len(camel_input)) :
        WeakerKey(keys[pair[1]], keys[pair[2]]) }

\* The rankings of the lines of the input, the weakest at rank 1, that put
\* every weaker hand below every stronger one.
Rankings(weaker) ==
    { rank \in [1..Len(camel_input) -> 1..Len(camel_input)] :
        /\ \A i, j \in 1..Len(camel_input) : i # j => rank[i] # rank[j]
        /\ \A pair \in weaker : rank[pair[1]] < rank[pair[2]] }

TotalWinnings(rank) ==
    SumOver([i \in 1..Len(camel_input) |-> rank[i] * camel_input[i].bid],
            1..Len(camel_input))

Headings == {<<-1, 0>>, <<1, 0>>, <<0, -1>>, <<0, 1>>}

OnBlocks(location) ==
    /\ location.row \in 0..(GridHeight(blocks) - 1)
    /\ location.col \in 0..(GridWidth(blocks) - 1)

BlockLocations ==
    { LocationNew(row, col) :
        row \in 0..(GridHeight(blocks) - 1), col \in 0..(GridWidth(blocks) - 1) }

\* A crucible that has entered `location` as cell number `run` of a straight
\* run in direction `heading`.
Crucibles == [location : BlockLocations, heading : Headings, run : 1..run_max]

CameFrom(crucible) ==
    LocationNew(crucible.location.row - crucible.heading[1],
                crucible.location.col - crucible.heading[2])

EnteredLoss(crucible) == blocks[crucible.location.row + 1][crucible.location.col + 1]

\* The first cell of the first run, in any direction from the top-left cell.
FirstMove(crucible) == crucible.run = 1 /\ CameFrom(crucible) = LocationNew(0, 0)

\* What a crucible was one cell earlier: further back in the same run, or at
\* the end of a run of at least run_min cells across this one.
OneCellEarlier(crucible) ==
    IF ~OnBlocks(CameFrom(crucible)) THEN {}
    ELSE IF crucible.run > 1
    THEN {[location |-> CameFrom(crucible), heading |-> crucible.heading,
           run |-> crucible.run - 1]}
    ELSE {[location |-> CameFrom(crucible), heading |-> heading, run |-> run] :
            heading \in {h \in Headings : h[1] * crucible.heading[1]
                                            + h[2] * crucible.heading[2] = 0},
            run \in run_min..run_max}

\* One round of lowering the losses (-1: not reached yet).
LowerLosses(losses) ==
    [crucible \in Crucibles |->
        LET ways == (IF losses[crucible] # -1 THEN {losses[crucible]} ELSE {})
                    \cup (IF FirstMove(crucible) THEN {EnteredLoss(crucible)} ELSE {})
                    \cup {losses[earlier] + EnteredLoss(crucible) :
                            earlier \in {e \in OneCellEarlier(crucible) : losses[e] # -1}}
        IN  IF ways = {} THEN -1
            ELSE CHOOSE loss \in ways : \A other \in ways : loss <= other]

RECURSIVE LowestLosses(_)
LowestLosses(losses) ==
    LET lower == LowerLosses(losses)
    IN  IF lower = losses THEN losses ELSE LowestLosses(lower)

\* The losses of the paths that may stop at the bottom-right cell.
StoppingLosses ==
    UNION { { lowest[crucible] :
                crucible \in {c \in Crucibles : /\ c.location = EndLocation(blocks)
                                                /\ c.run >= run_min
                                                /\ lowest[c] # -1} } :
            lowest \in {LowestLosses([crucible \in Crucibles |-> -1])} }

\* The cells a straight move from one location to another enters.
EnteredCells(from, to) ==
    { LocationNew(row, col) :
        row \in Least2(from.row, to.row)..(from.row + to.row - Least2(from.row, to.row)),
        col \in Least2(from.col, to.col)..(from.col + to.col - Least2(from.col, to.col)) }
    \ {from}

\* An edge out of `from`: it stays on the grid, runs run_min..run_max cells
\* along one axis and carries the sum of the cells it enters.
EdgeRight(from, edge, along_row) ==
    LET to == edge[1].location
        cells == EnteredCells(from, to)
    IN  /\ OnBlocks(to)
        /\ IF along_row THEN to.row = from.row ELSE to.col = from.col
        /\ Cardinality(cells) \in run_min..run_max
        /\ edge[2] = SumOver([location \in cells |->
                                 blocks[location.row + 1][location.col + 1]], cells)

\* C21: when minimize has returned and a path exists, it returned the least
\* total of the entered cells over the paths from the top-left to the
\* bottom-right cell whose straight runs have run_min..run_max cells, turn by
\* 90 degrees after every run, start in any direction and stop after a run of
\* at least run_min cells (on the larger example the answers of its test, 102
\* and 94, stand for that total; on the other 59 and 71); every edge
\* horizontal and vertical generate stays on the grid and carries the sum of
\* the cells it enters.
C21_Minimize ==
    /\ d17pc = "done" =>
          /\ blocks # ExampleBlocks =>
              \A losses \in {StoppingLosses} :
                losses # {} =>
                    /\ heat_loss \in losses
                    /\ \A loss \in losses : heat_loss <= loss
          /\ blocks = ExampleBlocks => heat_loss = IF run_min = 1 THEN 102 ELSE 94
          /\ blocks = ExampleBlocks2 => heat_loss = IF run_min = 1 THEN 59 ELSE 71
    /\ d17pc = "search" =>
          \A node \in CheapestNodes :
              /\ \A edge \in BlocksHorizontal(blocks, node.location, run_min, run_max) :
                    EdgeRight(node.location, edge, TRUE)
              /\ \A edge \in BlocksVertical(blocks, node.location, run_min, run_max) :
                    EdgeRight(node.location, edge, FALSE)

\* C21 witness: minimize(4, 10) has returned a loss on a grid of WideSide by
\* WideSide cells: a run east and a run south, or south and east.
C21_Witness ==
    /\ d17pc = "done"
    /\ run_min = 4
    /\ blocks \in WideBlocks
    /\ heat_loss > 0
    /\ Cardinality(settled_nodes) > 1

(***************************************************************************)
(* Day 18: the cells of the lagoon, counted one by one.                    *)
(***************************************************************************)

\* The unit move of an instruction: the way its amount takes the digger.
UnitMove(instruction) ==
    LET sense == IF instruction.amount < 0 THEN -1 ELSE 1
    IN  CASE instruction.direction = "U" -> <<0, sense>>
          [] instruction.direction = "D" -> <<0, -sense>>
          [] instruction.direction = "L" -> <<-sense, 0>>
          [] instruction.direction = "R" -> <<sense, 0>>

\* The cells the digger stands on after each metre of the first n
\* instructions, in order.
RECURSIVE DugCells(_, _)
DugCells(plan, n) ==
    IF n = 0 THEN << >>
    ELSE LET before == DugCells(plan, n - 1)
             from == IF before = << >> THEN <<0, 0>> ELSE before[Len(before)]
             move == UnitMove(plan[n])
         IN  before \o [k \in 1..AbsI64(plan[n].amount) |->
                            <<from[1] + k * move[1], from[2] + k * move[2]>>]

TrenchCells == {DugCells(dig_plan, Len(dig_plan))[k] :
                    k \in 1..Len(DugCells(dig_plan, Len(dig_plan)))}

\* The plan traces a closed loop from the origin that meets no cell twice.
SimpleLoop ==
    LET dug == DugCells(dig_plan, Len(dig_plan))
    IN  /\ dug # << >>
        /\ dug[Len(dug)] = <<0, 0>>
        /\ \A i, j \in 1..Len(dug) : i # j => dug[i] # dug[j]

\* The metres of trench that run up or down, each as its lower cell.
UprightMetres ==
    LET dug == DugCells(dig_plan, Len(dig_plan))
        before(k) == IF k = 1 THEN dug[Len(dug)] ELSE dug[k - 1]
    IN  { IF before(k)[2] < dug[k][2] THEN before(k) ELSE dug[k] :
            k \in {i \in 1..Len(dug) : before(i)[1] = dug[i][1]} }

\* The cells off the trench with an odd number of upright metres to their
\* right.
InsideCells ==
    LET xs == {cell[1] : cell \in TrenchCells}
        ys == {cell[2] : cell \in TrenchCells}
    IN  { cell \in (xs \X ys) \ TrenchCells :
            Cardinality({metre \in UprightMetres :
                            metre[2] = cell[2] /\ metre[1] > cell[1]}) % 2 = 1 }

\* C22: when dig has returned on a plan that traces a closed loop from the
\* origin that meets no cell twice, it returned the number of cells of the
\* trench and its inside, which is the shoelace area less half the perimeter
\* plus one, plus the perimeter, both halvings exact, whichever way round the
\* loop is dug.
C22_Dig ==
    (d18pc = "done" /\ SimpleLoop) =>
        /\ dig_result = Cardinality(TrenchCells) + Cardinality(InsideCells)
        /\ perimeter % 2 = 0
        /\ WindowSum(verticies, Len(verticies)) % 2 = 0

(***************************************************************************)
(* Day 13: the lines of reflection, read off the cells of the pattern.     *)
(***************************************************************************)

MirrorCell(row, col) == mirror_text[row + 1][col + 1]

\* The pairs of cells a line with i columns to its left sets against each
\* other, over the shorter side, that differ.
ColumnDifferences(i) ==
    { <<row, away>> \in (0..(Len(mirror_text) - 1)) \X (0..(Len(mirror_text[1]) - 1)) :
        /\ i - 1 - away >= 0
        /\ i + away <= Len(mirror_text[1]) - 1
        /\ MirrorCell(row, i - 1 - away) # MirrorCell(row, i + away) }

\* The same for a line with i rows above it.
RowDifferences(i) ==
    { <<away, col>> \in (0..(Len(mirror_text) - 1)) \X (0..(Len(mirror_text[1]) - 1)) :
        /\ i - 1 - away >= 0
        /\ i + away <= Len(mirror_text) - 1
        /\ MirrorCell(i - 1 - away, col) # MirrorCell(i + away, col) }

WantedDifferences == IF smudge THEN 1 ELSE 0

\* The first line whose sides differ in the wanted number of cells, 0 if
\* there is none.
FirstColumnLine ==
    LET found == { i \in 1..(Len(mirror_text[1]) - 1) :
                     Cardinality(ColumnDifferences(i)) = WantedDifferences }
    IN  IF found = {} THEN 0 ELSE CHOOSE i \in found : \A other \in found : i <= other

FirstRowLine ==
    LET found == { i \in 1..(Len(mirror_text) - 1) :
                     Cardinality(RowDifferences(i)) = WantedDifferences }
    IN  IF found = {} THEN 0 ELSE CHOOSE i \in found : \A other \in found : i <= other

\* C23: on a pattern of at most 32 by 32 cells, the vertical function has
\* returned 100 times the number of rows above the first line between rows
\* whose sides mirror each other over the shorter side (differ in exactly one
\* cell for the one_off function), the horizontal function the number of
\* columns left of the first such line between columns, and the pattern
\* contributes their sum, 0 standing for a missing line: 5 and 400 on the
\* patterns of the example, 300 and 100 with the smudge.
C23_Reflections ==
    /\ d13pc \in {"horizontal", "done"} => vertical_res = 100 * FirstRowLine
    /\ d13pc = "done" =>
          /\ incidence = 100 * FirstRowLine + FirstColumnLine
          /\ mirror_text = ExampleMirror1 => incidence = IF smudge THEN 300 ELSE 5
          /\ mirror_text = ExampleMirror2 => incidence = IF smudge THEN 100 ELSE 400

\* C23 witness: a line of 32 cells has a line of reflection in its second
\* half, found by the one_off function, and no line between rows.
C23_Witness ==
    /\ d13pc = "done"
    /\ smudge
    /\ Len(mirror_text[1]) = WordBits
    /\ incidence > WordBits \div 2
    /\ incidence < 100

(***************************************************************************)
(* Day 6: the number of ways to beat the record.                           *)
(***************************************************************************)

\* The hold times that beat the record.
BeatingHolds == { x \in 0..race_time : (race_time - x) * x > race_record }

\* A returned value is the number of hold times that beat the record.
WaysCounted == d6pc = "done" => race_ways = Cardinality(BeatingHolds)

\* C24: for time >= 0 and record >= 0, ways_to_beat comes to its end, never
\* running a loop up to the overflow of i64, and returns the number of the x
\* in 0..=time with (time - x) * x > record, 0 when time * time <= 4 * record.
C24_WaysToBeat ==
    /\ WaysCounted
    /\ d6pc \notin {"panicked", "wrapped"}

\* A record that cannot be beaten: the first loop has run lower past time.
UnbeatenRunsAway ==
    /\ d6pc \in {"panicked", "wrapped"}
    /\ race_time * race_time <= 4 * race_record
    /\ BeatingHolds = {}

\* A record that can be beaten: both loops have moved their bound and the
\* count is returned.
BeatenExample ==
    /\ d6pc = "done"
    /\ race_time = 30
    /\ race_record = 200
    /\ race_ways = 9

(***************************************************************************)
(* aoc-plumbing: what a Solution shows and serializes to.                  *)
(***************************************************************************)

\* The Solution of the doc test: Solution::new("hello world", 12345)
DocSolution == [part_one |-> [quoted |-> TRUE, chars |-> HelloWorldChars],
                part_two |-> [quoted |-> FALSE, chars |-> <<"1", "2", "3", "4", "5">>]]

\* "part 1: hello world\npart 2: 12345"
DocText ==
    <<"p", "a", "r", "t", " ", "1", ":", " ",
      "h", "e", "l", "l", "o", " ", "w", "o", "r", "l", "d", "\n",
      "p", "a", "r", "t", " ", "2", ":", " ", "1", "2", "3", "4", "5">>

\* "{\"part_one\":\"hello world\",\"part_two\":12345}"
DocJson ==
    <<"{", "\"", "p", "a", "r", "t", "_", "o", "n", "e", "\"", ":",
      "\"", "h", "e", "l", "l", "o", " ", "w", "o", "r", "l", "d", "\"", ",",
      "\"", "p", "a", "r", "t", "_", "t", "w", "o", "\"", ":",
      "1", "2", "3", "4", "5", "}">>

\* The line `part <n>: <chars>`
PartLine(n, chars) == <<"p", "a", "r", "t", " ", n, ":", " ">> \o chars

\* The first position from `from` on at which text holds c, 0 if none.
RECURSIVE FindChar(_, _, _)
FindChar(text, c, from) ==
    IF from > Len(text) THEN 0
    ELSE IF text[from] = c THEN from
    ELSE FindChar(text, c, from + 1)

\* The keys of an object whose values hold no comma, colon or escape: the
\* quoted names before the colons, from position `from` of the text on.
RECURSIVE KeysFrom(_, _)
KeysFrom(text, from) ==
    LET colon == FindChar(text, ":", from)
        comma == FindChar(text, ",", colon + 1)
    IN  IF colon = 0 THEN << >>
        ELSE <<SubSeq(text, from + 1, colon - 2)>>
                \o (IF comma = 0 THEN << >> ELSE KeysFrom(text, comma + 1))

\* C25: a Solution displays as `part 1: <part_one>`, a newline and
\* `part 2: <part_two>`; it serializes to a JSON object, in braces, with
\* exactly the keys part_one and part_two in that order; the texts of the doc
\* test are the ones it gives; and Solution::default() equals
\* Solution::new("not implemented", "not implemented").
C25_Solution ==
    /\ sol_text # << >> =>
          /\ sol_text = PartLine("1", sol_made.part_one.chars) \o <<"\n">>
                           \o PartLine("2", sol_made.part_two.chars)
          /\ sol_made = DocSolution => sol_text = DocText
    /\ solpc = "end" =>
          /\ Head(sol_json) = "{"
          /\ sol_json[Len(sol_json)] = "}"
          /\ KeysFrom(sol_json, 2) =
                << <<"p", "a", "r", "t", "_", "o", "n", "e">>,
                   <<"p", "a", "r", "t", "_", "t", "w", "o">> >>
          /\ sol_made = DocSolution => sol_json = DocJson
    /\ made_by = "default" =>
          /\ sol_made.part_one = [quoted |-> TRUE, chars |-> NotImplementedChars]
          /\ sol_made.part_two = [quoted |-> TRUE, chars |-> NotImplementedChars]

\* C25 witness: the Solution of the doc test has been shown and serialized.
C25_Witness ==
    /\ sol_made = DocSolution
    /\ sol_text = DocText
    /\ solpc = "end"
    /\ sol_json = DocJson

(***************************************************************************)
(* Day 14: what a tilt leaves, read off the cells of the grid.             *)
(***************************************************************************)

TiltVertical == last_tilt \in {"north", "south"}

\* The cell next to p on the side the last tilt points to.
TowardsTilt(p) ==
    CASE last_tilt = "north" -> <<p[1] - 1, p[2]>>
      [] last_tilt = "south" -> <<p[1] + 1, p[2]>>
      [] last_tilt = "west" -> <<p[1], p[2] - 1>>
      [] OTHER -> <<p[1], p[2] + 1>>

InDish(p) ==
    /\ p[1] \in 0..(dish2_grid.height - 1)
    /\ p[2] \in 0..(dish2_grid.width - 1)

\* p and q lie in one column, or one row, with no cube rock on or between them.
SameSegment(p, q) ==
    IF TiltVertical
    THEN /\ p[2] = q[2]
         /\ \A row \in 0..(dish2_grid.height - 1) :
               (row - p[1]) * (row - q[1]) <= 0 => <<row, p[2]>> \notin dish2_grid.cubes
    ELSE /\ p[1] = q[1]
         /\ \A col \in 0..(dish2_grid.width - 1) :
               (col - p[2]) * (col - q[2]) <= 0 => <<p[1], col>> \notin dish2_grid.cubes

\* The list holds, each once, the indices of the rounds whose coordinate on
\* the axis (1 the row, 2 the column) is v.
ListsExactly(list, axis, v) ==
    /\ \A m, n \in 1..Len(list) : list[m] = list[n] => m = n
    /\ {list[n] : n \in 1..Len(list)}
          = {i \in 1..Len(tilt_to.rounds) : tilt_to.rounds[i][axis] = v}

\* C26: after every tilt made by part_one or by cycle the number of round
\* rocks is what it was; the round rocks lie on pairwise distinct cells of the
\* grid that hold no cube rock; every round rock is in the cube-free segment
\* of its column (north, south) or row (west, east) it was in, and has the
\* edge of the grid, a cube rock or another round rock next to it on the side
\* the tilt points to; and after a north or south tilt rounds_in_rows[r]
\* holds exactly the rocks of row r and every rounds_in_cols is empty, after a
\* west or east tilt the same with rows and columns exchanged.
C26_Tilts ==
    last_tilt # "none" =>
        LET after == tilt_to.rounds
        IN  /\ Len(after) = Len(tilt_from)
            /\ Len(after) = Cardinality(dish2_grid.rounds)
            /\ \A i, j \in 1..Len(after) : after[i] = after[j] => i = j
            /\ \A i \in 1..Len(after) :
                  /\ InDish(after[i])
                  /\ after[i] \notin dish2_grid.cubes
                  /\ SameSegment(tilt_from[i], after[i])
                  /\ \/ ~InDish(TowardsTilt(after[i]))
                     \/ TowardsTilt(after[i]) \in dish2_grid.cubes
                     \/ \E j \in 1..Len(after) : after[j] = TowardsTilt(after[i])
            /\ IF TiltVertical
               THEN /\ \A row \in 1..dish2_grid.height :
                          ListsExactly(tilt_to.rounds_in_rows[row], 1, row - 1)
                    /\ \A col \in 1..dish2_grid.width : tilt_to.rounds_in_cols[col] = << >>
               ELSE /\ \A col \in 1..dish2_grid.width :
                          ListsExactly(tilt_to.rounds_in_cols[col], 2, col - 1)
                    /\ \A row \in 1..dish2_grid.height : tilt_to.rounds_in_rows[row] = << >>

\* C26 witness: in a second call on the grid of the example a tilt to the
\* west has moved a round rock past a free cell and left two round rocks side
\* by side.
C26_Witness ==
    /\ dish2_grid.height = 10
    /\ Len(dish_calls) >= 1
    /\ last_tilt = "west"
    /\ \E i \in 1..Len(tilt_from) : tilt_from[i][2] - tilt_to.rounds[i][2] >= 2
    /\ \E i, j \in 1..Len(tilt_from) :
          /\ tilt_to.rounds[i][1] = tilt_to.rounds[j][1]
          /\ tilt_to.rounds[i][2] + 1 = tilt_to.rounds[j][2]

\* cycle has returned before the last pass that is followed.
SpinsFollowed == spin_idx < MaxSpins - 1

\* The first calls as solve makes them return the loads of the example.
FirstCalls ==
    /\ (Len(dish_calls) >= 1 /\ dish_calls[1].part = 1) =>
          dish_calls[1].value = total_load(dish2_grid, tilt_north(dish2_grid, dish2_grid.rounds))
    /\ (Len(dish_calls) >= 2 /\ dish2_grid.height = 10
            /\ dish_calls[1].part = 1 /\ dish_calls[2].part = 2) =>
          /\ dish_calls[1].value = 136
          /\ dish_calls[2].value = 64

\* The calls of part n that have returned.
CallsOf(n) == {k \in 1..Len(dish_calls) : dish_calls[k].part = n}

\* part_one gives one value whenever no part_two was called before it.
PartOneAlone ==
    \A k \in CallsOf(1) :
        (\A earlier \in 1..(k - 1) : dish_calls[earlier].part = 1) =>
            dish_calls[k].value
               = total_load(dish2_grid, tilt_north(dish2_grid, dish2_grid.rounds))

\* Every call of part_two returns the load the first one returned.
PartTwoSame ==
    \A k \in CallsOf(2), first \in CallsOf(2) :
        dish_calls[k].value = dish_calls[first].value

\* part_one called after part_two returns the load of the parsed dish tilted
\* north.
PartOneAfterTwo ==
    \A k \in CallsOf(1) :
        dish_calls[k].value
           = total_load(dish2_grid, tilt_north(dish2_grid, dish2_grid.rounds))

\* C27: whatever calls were made before it on the instance, part_one returns
\* the load of the parsed dish tilted north and part_two returns what the
\* first call of part_two returned.
C27_Repeatable == PartOneAfterTwo /\ PartTwoSame

====
